---- MODULE Spec2Model ----
(***************************************************************************)
(* Nexifit: the WhatsApp onboarding state machine (whatsapp_webhook and    *)
(* its helpers in app.py) together with the daily-plan scheduling engine   *)
(* (init_scheduler, schedule_user_daily_workout,                           *)
(* reschedule_all_daily_workouts, send_daily_workout_plan) and the durable *)
(* tables of database_pg.py that they read and write.                      *)
(*                                                                         *)
(* gunicorn runs one sync worker, so inbound messages are handled one at a *)
(* time: every webhook path is one atomic action.  threading.Thread(...)   *)
(* targets and scheduler job bodies run concurrently with the webhook and  *)
(* are separate actions.                                                   *)
(***************************************************************************)
EXTENDS Integers, Sequences, FiniteSets, TLC

(***************************************************************************)
(* Bounds of the model.                                                    *)
(***************************************************************************)
MaxThreads == 1

(***************************************************************************)
(* Values.  NULL is Python's None.  "" is the empty string, which the code *)
(* treats like None wherever it tests truthiness.                          *)
(***************************************************************************)
NULL == "null"
Truthy(v) == v \notin {NULL, ""}
Or(v, d) == IF Truthy(v) THEN v ELSE d

\* Sender identities, as the sequence of the pieces of the "From" value.
U1 == <<"whatsapp", ":", "+1">>
U2 == <<"whatsapp", ":", "+2">>
Users == {U1, U2}

Digits == {"0", "1", "2", "3", "4", "5", "6", "7", "8", "9"}
DigitVal(c) ==
  CASE c = "0" -> 0 [] c = "1" -> 1 [] c = "2" -> 2 [] c = "3" -> 3
    [] c = "4" -> 4 [] c = "5" -> 5 [] c = "6" -> 6 [] c = "7" -> 7
    [] c = "8" -> 8 [] c = "9" -> 9
DigitChar(n) ==
  CASE n = 0 -> "0" [] n = 1 -> "1" [] n = 2 -> "2" [] n = 3 -> "3"
    [] n = 4 -> "4" [] n = 5 -> "5" [] n = 6 -> "6" [] n = 7 -> "7"
    [] n = 8 -> "8" [] n = 9 -> "9"

\* f"{hour:02d}:{minute:02d}" as a sequence of characters.
FormatHHMM(hour, minute) ==
  << DigitChar(hour \div 10), DigitChar(hour % 10), ":",
     DigitChar(minute \div 10), DigitChar(minute % 10) >>

\* str.lower().strip() of the workout-time texts of the model, as characters.
LowerStripChars(text) ==
  CASE text = "Flexible" -> <<"f", "l", "e", "x", "i", "b", "l", "e">>
    [] text = "6pm" -> <<"6", "p", "m">>
    [] text = "Evening 6:30" ->
         <<"e", "v", "e", "n", "i", "n", "g", " ", "6", ":", "3", "0">>
    [] text = "13pm" -> <<"1", "3", "p", "m">>
    [] OTHER -> << >>

\* `key in time_str` on character sequences.
Contains(s, key) ==
  \E i \in 1..(Len(s) - Len(key) + 1) : SubSeq(s, i, i + Len(key) - 1) = key

At(s, i) == IF i >= 1 /\ i <= Len(s) THEN s[i] ELSE "$"

RECURSIVE SkipSpaces(_, _)
SkipSpaces(s, i) == IF At(s, i) = " " THEN SkipSpaces(s, i + 1) ELSE i

\* re.search(r'(\d{1,2})(?::(\d{2}))?\s*(am|pm)?', s): the leftmost match
\* starts at the first digit; every later group is optional and greedy.
\* (am|pm)? at position k.
MatchMeridiem(s, hour, minute, k) ==
  [found |-> TRUE, hour |-> hour, minute |-> minute,
   meridiem |-> IF At(s, k + 1) = "m" /\ At(s, k) = "a" THEN "am"
                ELSE IF At(s, k + 1) = "m" /\ At(s, k) = "p" THEN "pm"
                ELSE NULL]

\* (?::(\d{2}))?\s* at position j.
MatchMinute(s, hour, j) ==
  IF At(s, j) = ":" /\ At(s, j + 1) \in Digits /\ At(s, j + 2) \in Digits
  THEN MatchMeridiem(s, hour, 10 * DigitVal(At(s, j + 1)) + DigitVal(At(s, j + 2)),
                     SkipSpaces(s, j + 3))
  ELSE MatchMeridiem(s, hour, 0, SkipSpaces(s, j))

\* (\d{1,2}) at position i.
MatchHour(s, i) ==
  IF At(s, i + 1) \in Digits
  THEN MatchMinute(s, 10 * DigitVal(At(s, i)) + DigitVal(At(s, i + 1)), i + 2)
  ELSE MatchMinute(s, DigitVal(At(s, i)), i + 1)

TimePatternSearch(s) ==
  IF \A i \in 1..Len(s) : s[i] \notin Digits
  THEN [found |-> FALSE, hour |-> 0, minute |-> 0, meridiem |-> NULL]
  ELSE MatchHour(s, CHOOSE k \in 1..Len(s) :
                      s[k] \in Digits /\ \A j \in 1..(k - 1) : s[j] \notin Digits)

preset_times ==
  << [key |-> <<"e", "a", "r", "l", "y", " ", "m", "o", "r", "n", "i", "n", "g">>,
      value |-> <<"0", "5", ":", "0", "0">>],
     [key |-> <<"m", "o", "r", "n", "i", "n", "g">>, value |-> <<"0", "7", ":", "0", "0">>],
     [key |-> <<"a", "f", "t", "e", "r", "n", "o", "o", "n">>,
      value |-> <<"1", "4", ":", "0", "0">>],
     [key |-> <<"e", "v", "e", "n", "i", "n", "g">>, value |-> <<"1", "8", ":", "0", "0">>],
     [key |-> <<"n", "i", "g", "h", "t">>, value |-> <<"2", "0", ":", "0", "0">>],
     [key |-> <<"f", "l", "e", "x", "i", "b", "l", "e">>,
      value |-> <<"0", "7", ":", "0", "0">>] >>

\* The presets, tried in order; "07:00" when none is in the text.
RECURSIVE PresetFrom(_, _)
PresetFrom(s, i) ==
  IF i > Len(preset_times) THEN <<"0", "7", ":", "0", "0">>
  ELSE IF Contains(s, preset_times[i].key) THEN preset_times[i].value
  ELSE PresetFrom(s, i + 1)

\* The hour after the am/pm adjustment, then the range check.
NormalizeHour(s, hour, minute) ==
  IF 0 <= hour /\ hour <= 23 /\ 0 <= minute /\ minute <= 59
  THEN FormatHHMM(hour, minute)
  ELSE PresetFrom(s, 1)

NormalizeMatch(s, m) ==
  IF ~m.found THEN PresetFrom(s, 1)
  ELSE NormalizeHour(s,
                     IF m.meridiem = "pm" /\ m.hour # 12 THEN m.hour + 12
                     ELSE IF m.meridiem = "am" /\ m.hour = 12 THEN 0
                     ELSE m.hour,
                     m.minute)

NormalizeChars(s) == NormalizeMatch(s, TimePatternSearch(s))

\* normalize_workout_time: any time text to HH:MM.
normalize_workout_time(time_str) ==
  IF ~Truthy(time_str) THEN FormatHHMM(7, 0)
  ELSE NormalizeChars(LowerStripChars(time_str))


(***************************************************************************)
(* State.                                                                  *)
(***************************************************************************)
VARIABLES
  user_sessions,           \* app.py: user_sessions, sender -> session dict
  user_profiles,           \* table user_profiles, phone_number -> row
  daily_workout_schedule,  \* table daily_workout_schedule, phone_number -> row
  authorized_users,        \* phone numbers is_user_authorized accepts
  jobs,                    \* the scheduler's job store
  running,                 \* scheduler.running
  threads,                 \* started threading.Thread targets that have not run yet
  last,                    \* the operation that produced this state
  track,                   \* per sender: the run of confirmation replies so far
  sched,                   \* the clock, the server's UTC offset, the executor's instances
  call                     \* a function applied on its own: its arguments and its result

vars == << user_sessions, user_profiles, daily_workout_schedule, authorized_users,
           jobs, running, threads, last, track, sched, call >>

(***************************************************************************)
(* Inbound messages and what the extractors can return for them.  The LLM  *)
(* gives no guarantee, so every extraction record can come with every      *)
(* utterance that reaches an extractor.                                    *)
(***************************************************************************)
Messages == {"Skip", "yes", "no", "remind me at 6pm", "hello"}

\* incoming_msg.lower().strip()
LowerStrip(msg) == IF msg = "Skip" THEN "skip" ELSE msg

IsSkip(msg) == LowerStrip(msg) = "skip"
IsAffirmative(msg) ==
  LowerStrip(msg) \in {"yes", "yeah", "yep", "correct", "right", "ok", "okay", "confirm"}
IsNegative(msg) == LowerStrip(msg) \in {"no", "nope", "change", "incorrect", "wrong"}
\* any(keyword in msg_lower for keyword in ["remind", "set reminder", ...])
HasReminderKeyword(msg) ==
  msg \in {"remind me at 6pm", "remind me to drink water in 30 minutes"}
\* is_update_request(message): "my weight is", "actually" and "new" are among
\* its keywords; no other utterance of the model holds one.
is_update_request(msg) ==
  msg \in {"my weight is now 80kg", "actually i bought a new phone"}

\* is_fitness_related(message): "weight", "drink", "water" and "minute" are
\* fitness keywords; the other utterances of the model hold no fitness keyword
\* and no question word.
is_fitness_related(msg) ==
  msg \in {"my weight is now 80kg", "remind me to drink water in 30 minutes"}

UserInfo(n, a, g, w, h, f) ==
  [name |-> n, age |-> a, gender |-> g, weight |-> w, height |-> h, fitness_goal |-> f]

\* extract_user_info_from_text: results for the basic and personalize stages.
ExtractedUserInfo ==
  { UserInfo(NULL, NULL, NULL, NULL, NULL, NULL),
    UserInfo("Nexi", NULL, NULL, NULL, NULL, NULL),
    UserInfo("Nexi", "27", "Male", NULL, NULL, NULL),
    UserInfo(NULL, NULL, NULL, "", "180cm", "build muscle"),
    UserInfo(NULL, NULL, NULL, "70kg", "180cm", "build muscle") }

\* extract_health_info
ExtractedHealth ==
  { [medical_conditions |-> NULL, injuries |-> NULL, allergies |-> NULL],
    [medical_conditions |-> "PCOD", injuries |-> "weak knees", allergies |-> "dairy"] }

\* extract_lifestyle_info
ExtractedLifestyle ==
  { [diet_preference |-> NULL, activity_level |-> NULL, stress_level |-> NULL],
    [diet_preference |-> "Mixed", activity_level |-> "Moderately Active",
     stress_level |-> "Moderate"] }

\* extract_workout_prefs
ExtractedWorkout ==
  { [workout_duration |-> NULL, workout_location |-> NULL, workout_time |-> NULL,
     exercises_to_avoid |-> NULL],
    [workout_duration |-> "30 minutes", workout_location |-> NULL, workout_time |-> NULL,
     exercises_to_avoid |-> "burpees"],
    [workout_duration |-> "30 minutes", workout_location |-> "Gym", workout_time |-> "6pm",
     exercises_to_avoid |-> "burpees"] }

NoExtract == UserInfo(NULL, NULL, NULL, NULL, NULL, NULL)

(***************************************************************************)
(* Sessions and profile rows.                                              *)
(***************************************************************************)
ProfileFields ==
  {"name", "age", "gender", "weight", "height", "bmi", "fitness_goal",
   "medical_conditions", "injuries", "allergies", "diet_preference",
   "activity_level", "stress_level", "workout_duration", "workout_location",
   "workout_time", "exercises_to_avoid"}

\* The session of a new user (whatsapp_webhook).  confirmation_attempts is
\* created as 0 on first use; an absent key and 0 are read alike.
FreshSession ==
  [onboarding_step |-> "basic",
   name |-> NULL, age |-> NULL, gender |-> NULL,
   weight |-> NULL, height |-> NULL, fitness_goal |-> NULL, bmi |-> NULL,
   medical_conditions |-> NULL, injuries |-> NULL, allergies |-> NULL,
   diet_preference |-> NULL, activity_level |-> NULL, stress_level |-> NULL,
   workout_duration |-> NULL, workout_location |-> NULL, workout_time |-> NULL,
   exercises_to_avoid |-> NULL,
   profile_completed |-> FALSE, profile_confirmed |-> FALSE,
   confirmation_attempts |-> 0, just_viewed_profile |-> FALSE]

\* The session rebuilt from a stored profile (whatsapp_webhook and
\* send_daily_workout_plan build the same one, but for bmi).
RestoredSession(profile, withBmi) ==
  [f \in DOMAIN FreshSession |->
     CASE f = "onboarding_step" -> "done"
       [] f = "profile_completed" -> TRUE
       [] f = "profile_confirmed" -> TRUE
       [] f = "bmi" -> IF withBmi THEN profile.bmi ELSE NULL
       [] f \in ProfileFields -> profile[f]
       [] OTHER -> FreshSession[f]]

\* profile_data of whatsapp_webhook, as save_user_profile stores it.
ProfileData(session) ==
  [f \in ProfileFields \cup {"profile_completed"} |->
     IF f = "profile_completed" THEN TRUE ELSE session[f]]

\* calculate_bmi: every weight and height text of the model parses, so a
\* number comes back; its arithmetic is not modelled.
calculate_bmi(weight, height) == "bmi"

Put(table, key, row) ==
  [k \in DOMAIN table \cup {key} |-> IF k = key THEN row ELSE table[k]]

\* save_user_profile: INSERT ... ON CONFLICT(phone_number) DO UPDATE
save_user_profile(profiles, phone, profile_data) == Put(profiles, phone, profile_data)

\* update_profile_field / mark_profile_completed: UPDATE ... WHERE phone_number
mark_profile_completed(profiles, phone) ==
  IF phone \in DOMAIN profiles
  THEN Put(profiles, phone, [profiles[phone] EXCEPT !.profile_completed = TRUE])
  ELSE profiles


(***************************************************************************)
(* The scheduler's job store.  A job is a record; add_job with             *)
(* replace_existing=True replaces the job of the same id, remove_job       *)
(* raises JobLookupError when there is none.                               *)
(***************************************************************************)
Job(id, trigger, func, args, hour, minute, day_of_week, timezone, run_date) ==
  [id |-> id, trigger |-> trigger, func |-> func, args |-> args, hour |-> hour,
   minute |-> minute, day_of_week |-> day_of_week, timezone |-> timezone,
   run_date |-> run_date, next_run_time |-> -1]

\* Instants are minutes since 1970-01-01 00:00 UTC (a Thursday).
DayMinutes == 24 * 60

\* The UTC offset of a named zone, in minutes (no daylight saving in the model).
TzOffset(tz) ==
  CASE tz = "Asia/Kolkata" -> 330
    [] tz = "America/New_York" -> -300
    [] OTHER -> 0

\* The UTC minute of the day at which a cron job fires.
CronMinute(job) ==
  (job.hour * 60 + job.minute - TzOffset(job.timezone) + DayMinutes) % DayMinutes

\* day_of_week: None is every day, 'sun' the days 3, 10, ... of the epoch.
CronDay(job, day) == job.day_of_week = NULL \/ day % 7 = 3

\* trigger.get_next_fire_time: the first fire time at or after instant t.
NextFireTime(job, t) ==
  IF job.trigger = "date" THEN job.run_date
  ELSE LET day == t \div DayMinutes
           k == CHOOSE n \in 0..8 :
                  /\ CronDay(job, day + n)
                  /\ (day + n) * DayMinutes + CronMinute(job) >= t
                  /\ \A m \in 0..(n - 1) :
                        ~(/\ CronDay(job, day + m)
                          /\ (day + m) * DayMinutes + CronMinute(job) >= t)
       IN (day + k) * DayMinutes + CronMinute(job)

\* add_job computes the job's next run time from the trigger and the clock.
add_job(store, job) ==
  {j \in store : j.id # job.id}
    \cup {[job EXCEPT !.next_run_time = NextFireTime(job, sched.now)]}
remove_job(store, id) == {j \in store : j.id # id}

\* str.split(':') on a character sequence.
RECURSIVE SplitColon(_)
SplitAt(s, i) == << SubSeq(s, 1, i - 1) >> \o SplitColon(SubSeq(s, i + 1, Len(s)))
SplitColon(s) ==
  IF \A i \in 1..Len(s) : s[i] # ":" THEN << s >>
  ELSE SplitAt(s, CHOOSE k \in 1..Len(s) :
                    s[k] = ":" /\ \A j \in 1..(k - 1) : s[j] # ":")

\* int(text) succeeds on a non-empty run of digits.
IsInt(s) == Len(s) > 0 /\ \A i \in 1..Len(s) : s[i] \in Digits
RECURSIVE IntOf(_)
IntOf(s) == IF Len(s) = 0 THEN 0
            ELSE 10 * IntOf(SubSeq(s, 1, Len(s) - 1)) + DigitVal(s[Len(s)])

\* phone_number.replace(':', '_')
ReplaceColon(phone) == [i \in 1..Len(phone) |-> IF phone[i] = ":" THEN "_" ELSE phone[i]]

\* A job id that also carries the time.
DailyJobIdWithTime(phone, preferred_time) ==
  << "daily_workout_" >> \o ReplaceColon(phone) \o << "_" >> \o preferred_time

\* job_id = f"daily_workout_{phone_number.replace(':', '_')}"
DailyJobId(phone, preferred_time) == << "daily_workout_" >> \o ReplaceColon(phone)

\* update_schedule_job_id: UPDATE daily_workout_schedule SET job_id WHERE phone_number
update_schedule_job_id(table, phone, job_id) ==
  IF phone \in DOMAIN table
  THEN Put(table, phone, [table[phone] EXCEPT !.job_id = job_id])
  ELSE table

\* schedule_user_daily_workout: the returned bool, the job store and the
\* schedule table it leaves.
\* return False: nothing is touched.
NotScheduled(store, table) == [ok |-> FALSE, jobs |-> store, table |-> table]

\* The range check, remove_job, add_job, update_schedule_job_id, return True.
\* add_ok: add_job returns; db_ok: update_schedule_job_id returns.  When one
\* of them raises, the except clause returns False with what was done before.
ScheduleAt(store, table, phone, hour, minute, job_id, add_ok, db_ok) ==
  IF ~(0 <= hour /\ hour <= 23 /\ 0 <= minute /\ minute <= 59)
  THEN NotScheduled(store, table)
  ELSE IF ~add_ok
  THEN [ok |-> FALSE, jobs |-> remove_job(store, job_id), table |-> table]
  ELSE [ok |-> db_ok,
        jobs |-> add_job(remove_job(store, job_id),
                         Job(job_id, "cron", "send_daily_workout_plan", phone,
                             hour, minute, NULL, "Asia/Kolkata", -1)),
        table |-> IF db_ok THEN update_schedule_job_id(table, phone, job_id) ELSE table]

\* hour, minute = map(int, preferred_time.split(':')); a ValueError returns False.
ScheduleParts(store, table, phone, preferred_time, parts, add_ok, db_ok) ==
  IF Len(parts) # 2 THEN NotScheduled(store, table)
  ELSE IF ~IsInt(parts[1]) \/ ~IsInt(parts[2]) THEN NotScheduled(store, table)
  ELSE ScheduleAt(store, table, phone, IntOf(parts[1]), IntOf(parts[2]),
                  DailyJobId(phone, preferred_time), add_ok, db_ok)

\* schedule_user_daily_workout(phone_number, preferred_time) with the outcomes
\* of its two calls that can raise.
schedule_user_daily_workout_call(store, table, isRunning, phone, preferred_time, add_ok, db_ok) ==
  IF ~isRunning THEN NotScheduled(store, table)
  ELSE ScheduleParts(store, table, phone, preferred_time, SplitColon(preferred_time),
                     add_ok, db_ok)

\* The call with the scheduler and the storage at work, as the webhook and
\* the startup recovery make it in the specifications of the stages.
schedule_user_daily_workout(store, table, isRunning, phone, preferred_time) ==
  schedule_user_daily_workout_call(store, table, isRunning, phone, preferred_time,
                                   TRUE, TRUE)

\* get_all_scheduled_users: active rows joined with authorized users.
get_all_scheduled_users(table, authorized) ==
  {p \in DOMAIN table : table[p].active /\ p \in authorized}

\* reschedule_all_daily_workouts: one schedule_user_daily_workout call per row;
\* a call that fails is counted and the loop goes on.
RECURSIVE RescheduleEach(_, _, _, _)
RescheduleRest(todo, r, isRunning) == RescheduleEach(todo, r.jobs, r.table, isRunning)

RescheduleUser(todo, p, store, table, isRunning) ==
  RescheduleRest(todo \ {p},
                 schedule_user_daily_workout(store, table, isRunning, p,
                                             table[p].preferred_time),
                 isRunning)

RescheduleEach(todo, store, table, isRunning) ==
  IF todo = {} THEN [jobs |-> store, table |-> table]
  ELSE RescheduleUser(todo, CHOOSE x \in todo : TRUE, store, table, isRunning)

reschedule_all_daily_workouts(store, table, authorized, isRunning) ==
  RescheduleEach(get_all_scheduled_users(table, authorized), store, table, isRunning)

CoreJobs ==
  { Job(<< "daily_mental_health_tips" >>, "cron", "send_daily_mental_health_tips",
        << >>, 1, 30, NULL, "UTC", -1),
    Job(<< "weekly_progress_reports" >>, "cron", "send_weekly_progress_reports",
        << >>, 14, 30, "sun", "UTC", -1),
    Job(<< "clean_expired_users" >>, "cron", "clean_expired_users",
        << >>, 20, 30, NULL, "UTC", -1) }

\* init_scheduler at module load: a new BackgroundScheduler with an empty
\* MemoryJobStore; when start() raises nothing is registered.
Started(r) == [running |-> TRUE, jobs |-> r.jobs, table |-> r.table]

init_scheduler(table, authorized, startOk) ==
  IF startOk
  THEN Started(reschedule_all_daily_workouts(
                 {[j EXCEPT !.next_run_time = NextFireTime(j, sched.now)] : j \in CoreJobs},
                 table, authorized, TRUE))
  ELSE [running |-> FALSE, jobs |-> {}, table |-> table]


(***************************************************************************)
(* The onboarding stages of whatsapp_webhook, each as the session (and the *)
(* reply) the handler leaves for one utterance.                            *)
(***************************************************************************)
\* A merge that appends what was extracted to what the session holds.
update_session_appending(session, extracted_data, step) ==
  LET Added(old, new) == IF ~Truthy(new) THEN old
                         ELSE IF Truthy(old) THEN old \o ", " \o new ELSE new
      s1 == IF step = "basic"
            THEN [session EXCEPT !.name = Added(@, extracted_data.name),
                                 !.age = Added(@, extracted_data.age),
                                 !.gender = Added(@, extracted_data.gender)]
            ELSE [session EXCEPT !.weight = Added(@, extracted_data.weight),
                                 !.height = Added(@, extracted_data.height),
                                 !.fitness_goal = Added(@, extracted_data.fitness_goal)]
  IN [session |-> s1,
      success |-> IF step = "basic"
                  THEN Truthy(s1.name) /\ Truthy(s1.age) /\ Truthy(s1.gender)
                  ELSE Truthy(s1.weight) /\ Truthy(s1.height) /\ Truthy(s1.fitness_goal)]

\* update_session_from_extracted_data
update_session_from_extracted_data(session, extracted_data, step) ==
  IF step = "basic"
  THEN LET s1 == [session EXCEPT
                    !.name = IF Truthy(extracted_data.name) THEN extracted_data.name ELSE @,
                    !.age = IF Truthy(extracted_data.age) THEN extracted_data.age ELSE @,
                    !.gender = IF Truthy(extracted_data.gender)
                               THEN extracted_data.gender ELSE @]
       IN [session |-> s1,
           success |-> Truthy(s1.name) /\ Truthy(s1.age) /\ Truthy(s1.gender)]
  ELSE IF step = "personalize"
  THEN LET s1 == [session EXCEPT
                    !.weight = IF Truthy(extracted_data.weight)
                               THEN extracted_data.weight ELSE @,
                    !.height = IF Truthy(extracted_data.height)
                               THEN extracted_data.height ELSE @,
                    !.fitness_goal = IF Truthy(extracted_data.fitness_goal)
                                     THEN extracted_data.fitness_goal ELSE @]
       IN [session |-> s1,
           success |-> Truthy(s1.weight) /\ Truthy(s1.height) /\ Truthy(s1.fitness_goal)]
  ELSE [session |-> session, success |-> FALSE]

\* The missing-critical-fields test of workout_prefs and of the affirmative reply.
CriticalMissing(session) ==
  ~Truthy(session.weight) \/ ~Truthy(session.height) \/ ~Truthy(session.fitness_goal)

Result(session, reply) ==
  [session |-> session, reply |-> reply, save |-> FALSE, thread |-> FALSE]

\* ', '.join(missing)
RECURSIVE Join(_)
Join(names) ==
  IF Len(names) = 0 THEN ""
  ELSE IF Len(names) = 1 THEN names[1]
  ELSE names[1] \o ", " \o Join(Tail(names))

\* The names, in the order of the code's tests, of the fields of a record
\* that are not truthy.
Missing(record, fields, names) ==
  LET kept == SelectSeq([i \in 1..Len(fields) |-> i], LAMBDA i : ~Truthy(record[fields[i]]))
  IN [i \in 1..Len(kept) |-> names[kept[i]]]

CouldntExtract(missing) == "I couldn't extract " \o Join(missing)

\* get_missing_fields(extracted_data, step): the names and the message.
get_missing_fields(extracted_data, step) ==
  LET missing ==
        IF step = "basic"
        THEN Missing(extracted_data, << "name", "age", "gender" >>,
                     << "name", "age", "gender" >>)
        ELSE IF step = "personalize"
        THEN Missing(extracted_data, << "weight", "height", "fitness_goal" >>,
                     << "weight", "height", "fitness_goal" >>)
        ELSE << >>
  IN [missing |-> missing,
      msg |-> IF Len(missing) > 0 THEN CouldntExtract(missing) ELSE "None"]

\* Step 1 advancing as soon as the name is known.
StepBasicOnName(session, msg, extracted) ==
  LET r == update_session_from_extracted_data(session, extracted, "basic")
  IN IF Truthy(r.session.name)
     THEN Result([r.session EXCEPT !.onboarding_step = "personalize"], "basic_ok")
     ELSE Result(r.session, get_missing_fields(extracted, "basic").msg)

\* Step 1: basic info.  There is no skip branch: "skip" goes to the extractor.
StepBasic(session, msg, extracted) ==
  LET r == update_session_from_extracted_data(session, extracted, "basic")
  IN IF r.success
     THEN Result([r.session EXCEPT !.onboarding_step = "personalize"], "basic_ok")
     ELSE Result(r.session, get_missing_fields(extracted, "basic").msg)

\* Step 2 where "skip" advances without filling in the defaults.
StepPersonalizeSkipKeeps(session, msg, extracted) ==
  IF IsSkip(msg)
  THEN Result([session EXCEPT !.onboarding_step = "health"], "personalize_skipped")
  ELSE
    LET s1 == [session EXCEPT
                 !.weight = IF Truthy(extracted.weight) THEN extracted.weight ELSE @,
                 !.height = IF Truthy(extracted.height) THEN extracted.height ELSE @,
                 !.fitness_goal = IF Truthy(extracted.fitness_goal)
                                  THEN extracted.fitness_goal ELSE @]
    IN IF Truthy(s1.weight) /\ Truthy(s1.height) /\ Truthy(s1.fitness_goal)
       THEN Result([s1 EXCEPT !.bmi = calculate_bmi(s1.weight, s1.height),
                              !.onboarding_step = "health"], "personalize_ok")
       ELSE Result(s1, CouldntExtract(Missing(s1, << "weight", "height", "fitness_goal" >>,
                                              << "weight", "height", "fitness goal" >>)))

\* Step 2: body metrics.
StepPersonalize(session, msg, extracted) ==
  IF IsSkip(msg)
  THEN Result([session EXCEPT !.weight = Or(@, "70kg"),
                              !.height = Or(@, "5'8"),
                              !.fitness_goal = Or(@, "overall fitness"),
                              !.onboarding_step = "health"], "personalize_skipped")
  ELSE
    LET s1 == [session EXCEPT
                 !.weight = IF Truthy(extracted.weight) THEN extracted.weight ELSE @,
                 !.height = IF Truthy(extracted.height) THEN extracted.height ELSE @,
                 !.fitness_goal = IF Truthy(extracted.fitness_goal)
                                  THEN extracted.fitness_goal ELSE @]
    IN IF Truthy(s1.weight) /\ Truthy(s1.height) /\ Truthy(s1.fitness_goal)
       THEN Result([s1 EXCEPT !.bmi = calculate_bmi(s1.weight, s1.height),
                              !.onboarding_step = "health"], "personalize_ok")
       ELSE Result(s1, CouldntExtract(Missing(s1, << "weight", "height", "fitness_goal" >>,
                                              << "weight", "height", "fitness goal" >>)))

\* Step 3 handing over to workout_prefs instead of lifestyle.
StepHealthJump(session, msg, health_data) ==
  Result([session EXCEPT
            !.medical_conditions = IF IsSkip(msg) THEN "None"
                                   ELSE Or(health_data.medical_conditions, "None"),
            !.injuries = IF IsSkip(msg) THEN "None" ELSE Or(health_data.injuries, "None"),
            !.allergies = IF IsSkip(msg) THEN "None" ELSE Or(health_data.allergies, "None"),
            !.onboarding_step = "workout_prefs"],
         IF IsSkip(msg) THEN "health_skipped" ELSE "health_ok")

\* Step 3: health info; nothing is required.
StepHealth(session, msg, health_data) ==
  IF IsSkip(msg)
  THEN Result([session EXCEPT !.medical_conditions = "None", !.injuries = "None",
                              !.allergies = "None", !.onboarding_step = "lifestyle"],
              "health_skipped")
  ELSE Result([session EXCEPT
                 !.medical_conditions = Or(health_data.medical_conditions, "None"),
                 !.injuries = Or(health_data.injuries, "None"),
                 !.allergies = Or(health_data.allergies, "None"),
                 !.onboarding_step = "lifestyle"], "health_ok")

\* Step 4 where "skip" advances without filling in the defaults.
StepLifestyleSkipKeeps(session, msg, lifestyle_data) ==
  IF IsSkip(msg)
  THEN Result([session EXCEPT !.onboarding_step = "workout_prefs"], "lifestyle_skipped")
  ELSE
    LET s1 == [session EXCEPT
                 !.diet_preference = IF Truthy(lifestyle_data.diet_preference)
                                     THEN lifestyle_data.diet_preference ELSE @,
                 !.activity_level = IF Truthy(lifestyle_data.activity_level)
                                    THEN lifestyle_data.activity_level ELSE @,
                 !.stress_level = IF Truthy(lifestyle_data.stress_level)
                                  THEN lifestyle_data.stress_level ELSE @]
    IN IF Truthy(s1.diet_preference) /\ Truthy(s1.activity_level) /\ Truthy(s1.stress_level)
       THEN Result([s1 EXCEPT !.onboarding_step = "workout_prefs"], "lifestyle_ok")
       ELSE Result(s1, "lifestyle_missing")

\* Step 4: lifestyle.
StepLifestyle(session, msg, lifestyle_data) ==
  IF IsSkip(msg)
  THEN Result([session EXCEPT !.diet_preference = Or(@, "Mixed"),
                              !.activity_level = Or(@, "Moderately Active"),
                              !.stress_level = Or(@, "Moderate"),
                              !.onboarding_step = "workout_prefs"], "lifestyle_skipped")
  ELSE
    LET s1 == [session EXCEPT
                 !.diet_preference = IF Truthy(lifestyle_data.diet_preference)
                                     THEN lifestyle_data.diet_preference ELSE @,
                 !.activity_level = IF Truthy(lifestyle_data.activity_level)
                                    THEN lifestyle_data.activity_level ELSE @,
                 !.stress_level = IF Truthy(lifestyle_data.stress_level)
                                  THEN lifestyle_data.stress_level ELSE @]
    IN IF Truthy(s1.diet_preference) /\ Truthy(s1.activity_level) /\ Truthy(s1.stress_level)
       THEN Result([s1 EXCEPT !.onboarding_step = "workout_prefs"], "lifestyle_ok")
       ELSE Result(s1, "lifestyle_missing")

\* Step 5 without the check of weight, height and fitness_goal.
StepWorkoutPrefsUnguarded(session, msg, workout_data) ==
  IF IsSkip(msg)
  THEN [session |-> [session EXCEPT !.workout_duration = Or(@, "30 minutes"),
                                    !.workout_location = Or(@, "Home"),
                                    !.workout_time = Or(@, "Flexible"),
                                    !.exercises_to_avoid = Or(@, "None")],
        reply |-> "generating_plan", save |-> FALSE, thread |-> TRUE]
  ELSE
    LET s1 == [session EXCEPT
                 !.workout_duration = IF Truthy(workout_data.workout_duration)
                                      THEN workout_data.workout_duration ELSE @,
                 !.workout_location = IF Truthy(workout_data.workout_location)
                                      THEN workout_data.workout_location ELSE @,
                 !.workout_time = IF Truthy(workout_data.workout_time)
                                  THEN workout_data.workout_time
                                  ELSE Or(@, "Flexible"),
                 !.exercises_to_avoid = Or(workout_data.exercises_to_avoid, "None")]
    IN IF Truthy(s1.workout_duration) /\ Truthy(s1.workout_location)
       THEN [session |-> [s1 EXCEPT !.onboarding_step = "done",
                                    !.profile_completed = TRUE,
                                    !.profile_confirmed = FALSE],
             reply |-> "profile_summary", save |-> TRUE, thread |-> FALSE]
       ELSE Result(s1, "workout_missing")

\* Step 5: workout preferences.  save: save_user_profile(sender, profile_data) is
\* called on the session returned; thread: handle_skip_and_generate_plan is started.
StepWorkoutPrefs(session, msg, workout_data) ==
  IF IsSkip(msg)
  THEN [session |-> [session EXCEPT !.workout_duration = Or(@, "30 minutes"),
                                    !.workout_location = Or(@, "Home"),
                                    !.workout_time = Or(@, "Flexible"),
                                    !.exercises_to_avoid = Or(@, "None")],
        reply |-> "generating_plan", save |-> FALSE, thread |-> TRUE]
  ELSE
    LET s1 == [session EXCEPT
                 !.workout_duration = IF Truthy(workout_data.workout_duration)
                                      THEN workout_data.workout_duration ELSE @,
                 !.workout_location = IF Truthy(workout_data.workout_location)
                                      THEN workout_data.workout_location ELSE @,
                 !.workout_time = IF Truthy(workout_data.workout_time)
                                  THEN workout_data.workout_time
                                  ELSE Or(@, "Flexible"),
                 !.exercises_to_avoid = Or(workout_data.exercises_to_avoid, "None")]
    IN IF Truthy(s1.workout_duration) /\ Truthy(s1.workout_location)
       THEN IF ~Truthy(s1.weight) \/ ~Truthy(s1.height) \/ ~Truthy(s1.fitness_goal)
            THEN Result([s1 EXCEPT !.onboarding_step = "personalize"], "need_critical")
            ELSE [session |-> [s1 EXCEPT !.onboarding_step = "done",
                                         !.profile_completed = TRUE,
                                         !.profile_confirmed = FALSE],
                  reply |-> "profile_summary", save |-> TRUE, thread |-> FALSE]
       ELSE Result(s1, "workout_missing")


(***************************************************************************)
(* Stage done: reminders, the confirmation sub-protocol, intent dispatch.  *)
(***************************************************************************)
\* IST = timezone(timedelta(hours=5, minutes=30)), in minutes.
IST_OFFSET_MINUTES == 330

\* parse_reminder_message: (task, run_time) from the LLM or the regex fallback,
\* or (None, None).  run_time is a wall-clock minute in IST.
NoParse == [task |-> NULL, run_time |-> 0]

\* now_ist = datetime.now(IST), as a wall-clock minute.
NowIst == sched.now + IST_OFFSET_MINUTES

\* now_ist.replace(hour=18, minute=0), a day later when that is before now_ist.
At6pm ==
  LET remind_time == (NowIst \div DayMinutes) * DayMinutes + 18 * 60
  IN IF remind_time < NowIst THEN remind_time + DayMinutes ELSE remind_time

ParsedReminders == { NoParse, [task |-> "workout", run_time |-> At6pm] }

\* parse_reminder_message(message, llm): what the two parsers can return for an
\* utterance.  "in 30 minutes" always matches the fallback's first pattern, so
\* that utterance never comes back without a parse.
InMinutes(task, amount) == [task |-> task, run_time |-> NowIst + amount]

parse_reminder_results(message) ==
  IF message = "remind me to drink water in 30 minutes"
  THEN { InMinutes("drink water", 30), InMinutes("me to drink water", 30) }
  ELSE ParsedReminders

\* int(datetime.now().timestamp()): the clock in seconds.
Timestamps == {60 * sched.now}

\* job_id = f"reminder_{sender}_{int(datetime.now().timestamp())}"
ReminderJobId(sender, ts) == << "reminder_" >> \o sender \o << "_", ToString(ts) >>

\* A schedule_reminder that registers whatever the state of the scheduler.
schedule_reminder_unchecked(store, isRunning, sender, task, run_time, ts, add_ok) ==
  [ok |-> TRUE,
   jobs |-> add_job(store,
                    Job(ReminderJobId(sender, ts), "date", "send_message_via_twilio",
                        sender \o << task >>, -1, -1, NULL, "UTC",
                        run_time - IST_OFFSET_MINUTES))]

\* schedule_reminder: False when the scheduler is not running and when
\* scheduler.add_job raises (add_ok false), which the except clause catches.
schedule_reminder(store, isRunning, sender, task, run_time, ts, add_ok) ==
  IF ~isRunning \/ ~add_ok THEN [ok |-> FALSE, jobs |-> store]
  ELSE [ok |-> TRUE,
        jobs |-> add_job(store,
                         Job(ReminderJobId(sender, ts), "date", "send_message_via_twilio",
                             sender \o << task >>, -1, -1, NULL, "UTC",
                             run_time - IST_OFFSET_MINUTES))]

Task(target, sender, is_initial_plan, incoming_msg) ==
  [target |-> target, sender |-> sender, is_initial_plan |-> is_initial_plan,
   incoming_msg |-> incoming_msg]

Outcome(session, profiles, store, table, reply, started) ==
  [session |-> session, profiles |-> profiles, jobs |-> store, table |-> table,
   reply |-> reply, started |-> started]

\* The reply and the thread of the affirmative branch, r being what
\* schedule_user_daily_workout returned.
Finalized(sender, session, profiles, r) ==
  Outcome(session, profiles, r.jobs, r.table,
          IF r.ok THEN "confirmed_scheduled" ELSE "confirmed",
          << Task("process_and_reply", sender, TRUE, "") >>)

\* profile = get_user_profile(sender); the call is made when it has a workout_time.
ScheduleFromProfile(sender, session, store, table, profiles, isRunning) ==
  Finalized(sender, session, profiles,
            IF sender \in DOMAIN profiles /\ Truthy(profiles[sender].workout_time)
            THEN schedule_user_daily_workout(
                   store, table, isRunning, sender,
                   normalize_workout_time(profiles[sender].workout_time))
            ELSE NotScheduled(store, table))

\* The affirmative branch without the schedule_user_daily_workout call.
ConfirmAffirmativeUnscheduled(sender, session, msg, store, table, profiles, isRunning) ==
  IF CriticalMissing(session)
  THEN Outcome([session EXCEPT !.onboarding_step = "personalize",
                               !.profile_confirmed = FALSE,
                               !.confirmation_attempts = 0],
               profiles, store, table, "confirm_need_critical", << >>)
  ELSE Finalized(sender,
                 [session EXCEPT !.profile_confirmed = TRUE,
                                 !.confirmation_attempts = 0],
                 mark_profile_completed(profiles, sender), NotScheduled(store, table))

\* The affirmative branch of the confirmation handler.
ConfirmAffirmative(sender, session, msg, store, table, profiles, isRunning) ==
  IF CriticalMissing(session)
  THEN Outcome([session EXCEPT !.onboarding_step = "personalize",
                               !.profile_confirmed = FALSE,
                               !.confirmation_attempts = 0],
               profiles, store, table, "confirm_need_critical", << >>)
  ELSE ScheduleFromProfile(sender,
                           [session EXCEPT !.profile_confirmed = TRUE,
                                           !.confirmation_attempts = 0],
                           store, table, mark_profile_completed(profiles, sender),
                           isRunning)

\* The negative branch leaving profile_confirmed as it was.
ConfirmNegativeUnconfirmed(sender, session, msg, store, table, profiles, isRunning) ==
  Outcome([session EXCEPT !.confirmation_attempts = 0],
          profiles, store, table, "what_to_change", << >>)

\* The negative branch of the confirmation handler.
ConfirmNegative(sender, session, msg, store, table, profiles, isRunning) ==
  Outcome([session EXCEPT !.confirmation_attempts = 0, !.profile_confirmed = TRUE],
          profiles, store, table, "what_to_change", << >>)

\* Neither: count the attempt, auto-confirm at 3.
ConfirmAmbiguous(sender, session, msg, store, table, profiles, isRunning) ==
  LET s1 == [session EXCEPT !.confirmation_attempts = @ + 1]
  IN IF s1.confirmation_attempts >= 3
     THEN Outcome([s1 EXCEPT !.profile_confirmed = TRUE, !.confirmation_attempts = 0],
                  mark_profile_completed(profiles, sender), store, table,
                  "auto_confirmed", << Task("process_and_reply", sender, TRUE, msg) >>)
     ELSE Outcome(s1, profiles, store, table, "please_confirm", << >>)

\* extract_update_fields(message): the fields the LLM names, none when it
\* fails or names none.
NoUpdate == [fields_to_update |-> {}, weight |-> NULL]

extract_update_fields(msg) ==
  IF is_update_request(msg)   \* the LLM is invoked with the utterance
  THEN {NoUpdate, [fields_to_update |-> {"weight"}, weight |-> "80kg"]}
  ELSE {NoUpdate}

\* update_user_profile(session, update_data): the session is written, the
\* stored profile is not.
update_user_profile(session, update_data) ==
  IF "weight" \in update_data.fields_to_update /\ Truthy(update_data.weight)
  THEN [session |-> [session EXCEPT !.weight = update_data.weight],
        reply |-> "profile_updated"]
  ELSE [session |-> session, reply |-> "update_unclear"]

\* A done branch that registers a reminder for 18:00 when nothing was parsed.
StepDoneDefaultReminder(sender, session, msg, parsed, update_data, ts, add_ok, store, table, profiles, isRunning) ==
  IF HasReminderKeyword(msg)
  THEN LET r == schedule_reminder(store, isRunning, sender,
                                  IF Truthy(parsed.task) THEN parsed.task ELSE "reminder",
                                  IF parsed.run_time # 0 THEN parsed.run_time ELSE At6pm, ts,
                                  add_ok)
       IN Outcome(session, profiles, r.jobs, table,
                  IF ~(Truthy(parsed.task) /\ parsed.run_time # 0) THEN "reminder_examples"
                  ELSE IF r.ok THEN "reminder_set" ELSE "reminder_failed", << >>)
  ELSE IF ~session.profile_confirmed /\ session.profile_completed
  THEN IF IsAffirmative(msg)
       THEN ConfirmAffirmative(sender, session, msg, store, table, profiles, isRunning)
       ELSE IF IsNegative(msg)
       THEN ConfirmNegative(sender, session, msg, store, table, profiles, isRunning)
       ELSE ConfirmAmbiguous(sender, session, msg, store, table, profiles, isRunning)
  ELSE IF is_update_request(msg)
  THEN Outcome(update_user_profile(session, update_data).session, profiles, store, table,
               update_user_profile(session, update_data).reply, << >>)
  ELSE IF ~is_fitness_related(msg)
  THEN Outcome(session, profiles, store, table, "off_topic", << >>)
  ELSE Outcome(session, profiles, store, table, "got_it",
               << Task("process_and_reply", sender, FALSE, msg) >>)

\* The branch of whatsapp_webhook for onboarding_step == "done".
StepDone(sender, session, msg, parsed, update_data, ts, add_ok, store, table, profiles, isRunning) ==
  IF HasReminderKeyword(msg)
  THEN IF Truthy(parsed.task) /\ parsed.run_time # 0
       THEN LET r == schedule_reminder(store, isRunning, sender, parsed.task,
                                       parsed.run_time, ts, add_ok)
            IN Outcome(session, profiles, r.jobs, table,
                       IF r.ok THEN "reminder_set" ELSE "reminder_failed", << >>)
       ELSE Outcome(session, profiles, store, table, "reminder_examples", << >>)
  ELSE IF ~session.profile_confirmed /\ session.profile_completed
  THEN IF IsAffirmative(msg)
       THEN ConfirmAffirmative(sender, session, msg, store, table, profiles, isRunning)
       ELSE IF IsNegative(msg)
       THEN ConfirmNegative(sender, session, msg, store, table, profiles, isRunning)
       ELSE ConfirmAmbiguous(sender, session, msg, store, table, profiles, isRunning)
  ELSE IF is_update_request(msg)
  THEN Outcome(update_user_profile(session, update_data).session, profiles, store, table,
               update_user_profile(session, update_data).reply, << >>)
  ELSE IF ~is_fitness_related(msg)
  THEN Outcome(session, profiles, store, table, "off_topic", << >>)
  ELSE Outcome(session, profiles, store, table, "got_it",
               << Task("process_and_reply", sender, FALSE, msg) >>)


(***************************************************************************)
(* Initial state: the database as the process finds it at start-up, then   *)
(* init_scheduler() at module load.                                        *)
(***************************************************************************)
StoredProfile ==
  [name |-> "Asha", age |-> "31", gender |-> "Female", weight |-> "60kg",
   height |-> "165cm", bmi |-> "bmi", fitness_goal |-> "fat loss",
   medical_conditions |-> "None", injuries |-> "None", allergies |-> "None",
   diet_preference |-> "Vegan", activity_level |-> "Active", stress_level |-> "Low",
   workout_duration |-> "45 minutes", workout_location |-> "Home",
   workout_time |-> "Evening 6:30", exercises_to_avoid |-> "None",
   profile_completed |-> TRUE]

Row(preferred_time) ==
  [preferred_time |-> preferred_time, timezone |-> "Asia/Kolkata", job_id |-> << >>,
   active |-> TRUE]

Empty == [k \in {} |-> NULL]

\* Database contents at start-up: U1 is new and U2 is not authorized (without
\* and with a schedule row for U1 left by an earlier deployment), or both are
\* returning users with stored profiles and schedule rows.
Databases ==
  { [authorized |-> {U1}, profiles |-> Empty, schedule |-> Empty],
    [authorized |-> {U1}, profiles |-> Empty,
     schedule |-> Put(Put(Empty, U1, Row(FormatHHMM(6, 30))),
                      U2, Row(FormatHHMM(21, 15)))],
    [authorized |-> {U1, U2},
     profiles |-> Put(Put(Empty, U1, StoredProfile), U2, StoredProfile),
     schedule |-> Put(Put(Empty, U1, Row(FormatHHMM(6, 30))),
                      U2, Row(FormatHHMM(21, 15)))] }

\* History kept per sender for the properties below:
\*   run         consecutive replies in the confirmation sub-protocol that were
\*               neither affirmative nor negative (3 stands for three or more)
\*   runThreads  threads started by the replies of that run
\*   registered  the time of the daily job registered at profile confirmation
\*   scheduled   the time of the last successful schedule_user_daily_workout call
\*               of this process
\*   replied     the confirmation handler has received a reply
\*   restored    the session was rebuilt from the stored profile
NoTrack == [run |-> 0, runThreads |-> 0, registered |-> << >>, scheduled |-> << >>,
            replied |-> FALSE, restored |-> FALSE]

\* The successful schedule_user_daily_workout calls of startup recovery.
BootScheduled(table, authorized, isRunning) ==
  [u \in Users |->
     IF /\ isRunning
        /\ u \in get_all_scheduled_users(table, authorized)
        /\ schedule_user_daily_workout({}, table, TRUE, u, table[u].preferred_time).ok
     THEN table[u].preferred_time
     ELSE << >>]

\* The clock at instant now on a server whose local time is UTC + utcoffset
\* minutes, with no job executing; ticks counts the advances of the clock.
Clock(now, utcoffset) ==
  [now |-> now, utcoffset |-> utcoffset, instances |-> Empty, ticks |-> 0]

NoCall == [fn |-> "", args |-> << >>, result |-> << >>]

Event(op, sender, msg, reply, started) ==
  [op |-> op, sender |-> sender, msg |-> msg, reply |-> reply, started |-> started]

Init ==
  /\ sched = Clock(0, 0)
  /\ call = NoCall
  /\ \E db \in Databases, startOk \in BOOLEAN :
    \E boot \in {init_scheduler(db.schedule, db.authorized, startOk)} :
       /\ user_sessions = Empty
       /\ user_profiles = db.profiles
       /\ daily_workout_schedule = boot.table
       /\ authorized_users = db.authorized
       /\ jobs = boot.jobs
       /\ running = boot.running
       /\ threads = << >>
       /\ last = Event("init", << >>, "", "", 0)
       /\ track = [u \in Users |->
                    [NoTrack EXCEPT !.scheduled =
                       BootScheduled(db.schedule, db.authorized, boot.running)[u]]]

(***************************************************************************)
(* whatsapp_webhook, one action per path through it.                       *)
(***************************************************************************)
is_user_authorized(sender) == sender \in authorized_users

HasCompletedProfile(sender) ==
  sender \in DOMAIN user_profiles /\ user_profiles[sender].profile_completed

\* The session the handler works on: the stored one, or the one restored from
\* a completed profile on the first message after a restart.
Handles(sender) ==
  /\ is_user_authorized(sender)
  /\ sender \in DOMAIN user_sessions \/ HasCompletedProfile(sender)

SessionAt(sender) ==
  IF sender \in DOMAIN user_sessions THEN user_sessions[sender]
  ELSE RestoredSession(user_profiles[sender], TRUE)

InConfirmation(session) ==
  /\ session.onboarding_step = "done"
  /\ session.profile_completed
  /\ ~session.profile_confirmed

Min(a, b) == IF a < b THEN a ELSE b

\* What a handled message does to the run of confirmation replies.
Tracked(sender, msg, reply, started, registered) ==
  LET t == track[sender]
      before == SessionAt(sender)
      inRun == InConfirmation(before) /\ ~IsAffirmative(msg) /\ ~IsNegative(msg)
  IN [track EXCEPT ![sender] =
        [run |-> IF inRun THEN Min(t.run + 1, 3) ELSE 0,
         runThreads |-> IF inRun THEN t.runThreads + started ELSE 0,
         registered |-> IF reply = "confirmed_scheduled" THEN registered ELSE t.registered,
         scheduled |-> IF reply = "confirmed_scheduled" THEN registered ELSE t.scheduled,
         replied |-> t.replied \/ (InConfirmation(before) /\ ~HasReminderKeyword(msg)),
         restored |-> IF sender \in DOMAIN user_sessions THEN t.restored ELSE TRUE]]

\* The authorization check placed after the session is set up.
DeniedAfterSession(sender, msg) ==
  /\ ~is_user_authorized(sender)
  /\ user_sessions' = Put(user_sessions, sender, FreshSession)
  /\ last' = Event("webhook", sender, msg, "denied", 0)
  /\ UNCHANGED << sched, call, user_profiles, daily_workout_schedule,
                  authorized_users, jobs, running, threads, track >>

Denied(sender, msg) ==
  /\ ~is_user_authorized(sender)
  /\ last' = Event("webhook", sender, msg, "denied", 0)
  /\ UNCHANGED << sched, call, user_sessions, user_profiles, daily_workout_schedule,
                  authorized_users, jobs, running, threads, track >>

Greet(sender, msg) ==
  /\ is_user_authorized(sender)
  /\ sender \notin DOMAIN user_sessions
  /\ ~HasCompletedProfile(sender)
  /\ user_sessions' = Put(user_sessions, sender, FreshSession)
  /\ track' = [track EXCEPT ![sender] =
                 [NoTrack EXCEPT !.registered = track[sender].registered,
                                 !.scheduled = track[sender].scheduled]]
  /\ last' = Event("webhook", sender, msg, "intro", 0)
  /\ UNCHANGED << sched, call, user_profiles, daily_workout_schedule, authorized_users, jobs,
                  running, threads >>

\* The four onboarding stages that only touch the session.
Onboard(sender, msg, r) ==
  /\ user_sessions' = Put(user_sessions, sender, r.session)
  /\ user_profiles' = IF r.save
                      THEN save_user_profile(user_profiles, sender, ProfileData(r.session))
                      ELSE user_profiles
  /\ r.thread => Len(threads) < MaxThreads
  /\ threads' = IF r.thread
                THEN Append(threads, Task("handle_skip_and_generate_plan", sender, FALSE, ""))
                ELSE threads
  /\ track' = Tracked(sender, msg, r.reply, 0, << >>)
  /\ last' = Event("webhook", sender, msg, r.reply, IF r.thread THEN 1 ELSE 0)
  /\ UNCHANGED << sched, call, daily_workout_schedule, authorized_users, jobs, running >>

Basic(sender, msg) ==
  /\ Handles(sender) /\ SessionAt(sender).onboarding_step = "basic"
  /\ \E extracted \in ExtractedUserInfo :
       Onboard(sender, msg, StepBasic(SessionAt(sender), msg, extracted))

Personalize(sender, msg) ==
  /\ Handles(sender) /\ SessionAt(sender).onboarding_step = "personalize"
  /\ \E extracted \in ExtractedUserInfo :
       Onboard(sender, msg, StepPersonalize(SessionAt(sender), msg, extracted))

Health(sender, msg) ==
  /\ Handles(sender) /\ SessionAt(sender).onboarding_step = "health"
  /\ \E health_data \in ExtractedHealth :
       Onboard(sender, msg, StepHealth(SessionAt(sender), msg, health_data))

Lifestyle(sender, msg) ==
  /\ Handles(sender) /\ SessionAt(sender).onboarding_step = "lifestyle"
  /\ \E lifestyle_data \in ExtractedLifestyle :
       Onboard(sender, msg, StepLifestyle(SessionAt(sender), msg, lifestyle_data))

WorkoutPrefs(sender, msg) ==
  /\ Handles(sender) /\ SessionAt(sender).onboarding_step = "workout_prefs"
  /\ \E workout_data \in ExtractedWorkout :
       Onboard(sender, msg, StepWorkoutPrefs(SessionAt(sender), msg, workout_data))

Done(sender, msg) ==
  /\ Handles(sender) /\ SessionAt(sender).onboarding_step = "done"
  /\ \E parsed \in parse_reminder_results(msg), ts \in Timestamps,
        update_data \in extract_update_fields(msg),
        add_ok \in IF HasReminderKeyword(msg) THEN BOOLEAN ELSE {TRUE} :
       \E r \in {StepDone(sender, SessionAt(sender), msg, parsed, update_data, ts, add_ok, jobs,
                         daily_workout_schedule, user_profiles, running)} :
          /\ Len(threads) + Len(r.started) <= MaxThreads
          /\ user_sessions' = Put(user_sessions, sender, r.session)
          /\ user_profiles' = r.profiles
          /\ jobs' = r.jobs
          /\ daily_workout_schedule' = r.table
          /\ threads' = threads \o r.started
          /\ track' = Tracked(sender, msg, r.reply, Len(r.started),
                              IF sender \in DOMAIN user_profiles
                              THEN normalize_workout_time(r.profiles[sender].workout_time)
                              ELSE << >>)
          /\ last' = Event("webhook", sender, msg, r.reply, Len(r.started))
          /\ UNCHANGED << sched, call, authorized_users, running >>


(***************************************************************************)
(* Background threads, scheduled jobs, and a restart of the process.       *)
(***************************************************************************)
Without(seq, i) == SubSeq(seq, 1, i - 1) \o SubSeq(seq, i + 1, Len(seq))

\* handle_skip_and_generate_plan(sender, session): the thread started by "skip"
\* at workout_prefs.  It writes the session only.
RunSkipPlan(i) ==
  /\ i \in 1..Len(threads)
  /\ threads[i].target = "handle_skip_and_generate_plan"
  /\ LET sender == threads[i].sender
     IN /\ user_sessions' = [user_sessions EXCEPT ![sender] =
                               [@ EXCEPT !.onboarding_step = "done",
                                         !.profile_completed = TRUE,
                                         !.profile_confirmed = TRUE]]
        /\ last' = Event("thread", sender, "", "skip_plan", 0)
  /\ threads' = Without(threads, i)
  /\ UNCHANGED << sched, call, user_profiles, daily_workout_schedule, authorized_users, jobs,
                  running, track >>

\* workout_minutes read from "Estimated Time: N minutes" in the plan.
WorkoutMinutes == 30

\* job_id = f"motivational_{sender}_{int(datetime.now().timestamp())}"
MotivationalJobId(sender, ts) == << "motivational_" >> \o sender \o << "_", ToString(ts) >>

\* schedule_motivational_message
schedule_motivational_message(store, isRunning, sender, workout_minutes, ts) ==
  IF ~isRunning THEN store
  ELSE add_job(store, Job(MotivationalJobId(sender, ts), "date",
                          "send_motivational_message", sender, -1, -1, NULL, "UTC",
                          sched.now + sched.utcoffset + workout_minutes))

\* process_and_reply: the model's reply either fails, or carries no estimated
\* time, or carries one (then an initial plan registers the follow-up message).
RunProcessAndReply(i) ==
  /\ i \in 1..Len(threads)
  /\ threads[i].target = "process_and_reply"
  /\ \E outcome \in {"error", "plain", "timed"}, ts \in Timestamps :
       LET sender == threads[i].sender
       IN /\ jobs' = IF outcome = "timed" /\ threads[i].is_initial_plan
                     THEN schedule_motivational_message(jobs, running, sender,
                                                        WorkoutMinutes, ts)
                     ELSE jobs
          /\ last' = Event("thread", sender, threads[i].incoming_msg, outcome, 0)
  /\ threads' = Without(threads, i)
  /\ UNCHANGED << sched, call, user_sessions, user_profiles, daily_workout_schedule,
                  authorized_users, running, track >>

\* smart_chunk gives the plan of the model in MaxChunks parts.
MaxChunks == 2

\* What an execution does once it has the session: graph.invoke, one
\* client.messages.create per chunk, mark_plan_sent.  Each may raise, which
\* ends the execution in the except clause: sent chunks went out before.
PlanRun(chunks, sent, marked) ==
  [chunks |-> chunks, sent |-> sent, marked |-> marked,
   reply |-> IF marked /\ sent = chunks THEN "plan" ELSE "error"]

\* An execution that marks the plan as sent before it sends the chunks.
PlanRunsMarkedFirst ==
  {PlanRun(MaxChunks, sent, TRUE) : sent \in 0..MaxChunks}
    \cup {PlanRun(MaxChunks, 0, FALSE)}

PlanRuns ==
  {PlanRun(MaxChunks, sent, FALSE) : sent \in 0..MaxChunks}
    \cup {PlanRun(MaxChunks, MaxChunks, TRUE)}

\* The event of an execution: the chunks sent of the chunks there were, and
\* whether last_plan_sent was written.
PlanEvent(phone, run) ==
  Event("job", phone, ToString(run.sent) \o "/" \o ToString(run.chunks), run.reply,
        IF run.marked THEN 1 ELSE 0)

\* send_daily_workout_plan(phone_number), run by the scheduler for a daily job.
\* mark_plan_sent writes last_plan_sent, a column nothing reads: the row is
\* modelled without it and the event says whether it was written.  When the
\* identity has no session get_user_profile is called first, and may raise.
send_daily_workout_plan(phone) ==
  IF phone \in DOMAIN user_sessions
  THEN /\ \E run \in PlanRuns : last' = PlanEvent(phone, run)
       /\ UNCHANGED << user_sessions, track >>
  ELSE \/ /\ last' = Event("job", phone, "", "error", 0)
          /\ UNCHANGED << user_sessions, track >>
       \/ /\ phone \notin DOMAIN user_profiles
          /\ last' = Event("job", phone, "", "no_profile", 0)
          /\ UNCHANGED << user_sessions, track >>
       \/ /\ phone \in DOMAIN user_profiles
          /\ user_sessions' = Put(user_sessions, phone,
                                  RestoredSession(user_profiles[phone], FALSE))
          /\ track' = [track EXCEPT ![phone].restored = TRUE]
          /\ \E run \in PlanRuns : last' = PlanEvent(phone, run)

\* A daily job fires; Spec leaves the clock out, so it may fire at any moment.
FireDailyJob(j) ==
  /\ running
  /\ j \in jobs
  /\ j.func = "send_daily_workout_plan"
  /\ send_daily_workout_plan(j.args)
  /\ UNCHANGED << sched, call, user_profiles, daily_workout_schedule, authorized_users, jobs,
                  running, threads >>

\* A one-off job (reminder or motivational message) runs and leaves the store.
FireDateJob(j) ==
  /\ running
  /\ j \in jobs
  /\ j.trigger = "date"
  /\ jobs' = jobs \ {j}
  /\ last' = Event("job", << >>, "", "date_job", 0)
  /\ UNCHANGED << sched, call, user_sessions, user_profiles, daily_workout_schedule,
                  authorized_users, running, threads, track >>

\* The process is restarted: sessions, threads and the job store are lost, the
\* database stays, init_scheduler runs again.
Restart ==
  /\ user_sessions' = Empty
  /\ threads' = << >>
  /\ \E startOk \in BOOLEAN :
       \E boot \in {init_scheduler(daily_workout_schedule, authorized_users, startOk)} :
          /\ jobs' = boot.jobs
          /\ running' = boot.running
          /\ daily_workout_schedule' = boot.table
          /\ track' = [u \in Users |->
                         [NoTrack EXCEPT
                            !.registered = track[u].registered,
                            !.scheduled = BootScheduled(daily_workout_schedule,
                                                        authorized_users, boot.running)[u]]]
  /\ sched' = [sched EXCEPT !.instances = Empty]
  /\ last' = Event("restart", << >>, "", "", 0)
  /\ UNCHANGED << call, user_profiles, authorized_users >>

Webhook(sender, msg) ==
  \/ Denied(sender, msg)
  \/ Greet(sender, msg)
  \/ Basic(sender, msg)
  \/ Personalize(sender, msg)
  \/ Health(sender, msg)
  \/ Lifestyle(sender, msg)
  \/ WorkoutPrefs(sender, msg)
  \/ Done(sender, msg)

Next ==
  \/ \E sender \in Users, msg \in Messages : Webhook(sender, msg)
  \/ \E i \in 1..MaxThreads : RunSkipPlan(i)
  \/ \E i \in 1..MaxThreads : RunProcessAndReply(i)
  \/ \E j \in jobs : FireDailyJob(j)
  \/ \E j \in jobs : FireDateJob(j)
  \/ Restart

Spec == Init /\ [][Next]_vars


(***************************************************************************)
(* The stage handlers as functions of the session.  Through the webhook a  *)
(* session never leaves personalize without weight, height and             *)
(* fitness_goal, so the checks of those fields in workout_prefs and in the *)
(* affirmative branch are exercised by drawing the session from a bounded  *)
(* set and letting the same handlers act on it.                            *)
(***************************************************************************)
GuardSession(step, w, h, g) ==
  [FreshSession EXCEPT
     !.onboarding_step = step,
     !.name = "Nexi", !.age = "27", !.gender = "Male",
     !.weight = w, !.height = h, !.fitness_goal = g,
     !.medical_conditions = "None", !.injuries = "None", !.allergies = "None",
     !.diet_preference = "Mixed", !.activity_level = "Moderately Active",
     !.stress_level = "Moderate",
     !.workout_duration = IF step = "done" THEN "30 minutes" ELSE NULL,
     !.workout_location = IF step = "done" THEN "Home" ELSE NULL,
     !.workout_time = IF step = "done" THEN "Flexible" ELSE NULL,
     !.exercises_to_avoid = IF step = "done" THEN "None" ELSE NULL,
     !.profile_completed = (step = "done")]

GuardSessions ==
  { GuardSession("workout_prefs", NULL, NULL, NULL),
    GuardSession("workout_prefs", NULL, "180cm", "build muscle"),
    GuardSession("workout_prefs", "70kg", "180cm", NULL),
    GuardSession("done", NULL, "180cm", "build muscle") }

InitGuard ==
  /\ sched = Clock(0, 0)
  /\ call = NoCall
  /\ \E session \in GuardSessions, startOk \in BOOLEAN :
    \E boot \in {init_scheduler(Empty, {U1}, startOk)} :
       /\ user_sessions = Put(Empty, U1, session)
       /\ user_profiles = IF session.profile_completed
                          THEN Put(Empty, U1, ProfileData(session))
                          ELSE Empty
       /\ daily_workout_schedule = boot.table
       /\ authorized_users = {U1}
       /\ jobs = boot.jobs
       /\ running = boot.running
       /\ threads = << >>
       /\ last = Event("init", << >>, "", "", 0)
       /\ track = [u \in Users |-> NoTrack]

SpecGuard == InitGuard /\ [][Next]_vars


(***************************************************************************)
(* The scheduler with its clock: the dispatcher that init_scheduler         *)
(* configures (coalesce, max_instances, misfire_grace_time), the executor's *)
(* running instances, the admin command that disables a daily schedule, and *)
(* the done stage of the webhook, which registers the one-off jobs.         *)
(***************************************************************************)
\* job_defaults with two instances of a job allowed.
max_instances_two == 1 + 1

\* job_defaults={'coalesce': True, 'max_instances': 1, 'misfire_grace_time': 300}
max_instances == 1

coalesce == TRUE

\* A grace time of a day.
misfire_grace_day == 24 * 3600

\* Seconds; schedule_user_daily_workout passes the same value to add_job.
misfire_grace_time == 300

\* The time between two fire times of a cron job.
Period(job) == IF job.day_of_week = NULL THEN DayMinutes ELSE 7 * DayMinutes

\* The fire times of a due job from its next_run_time up to the clock.
RunTimes(job) ==
  IF job.trigger = "date" THEN << job.next_run_time >>
  ELSE [i \in 1..((sched.now - job.next_run_time) \div Period(job) + 1) |->
          job.next_run_time + (i - 1) * Period(job)]

\* run_times[-1:] if run_times and job.coalesce else run_times
Coalesced(run_times) ==
  IF coalesce /\ Len(run_times) > 0 THEN << run_times[Len(run_times)] >> ELSE run_times

\* The run times the executor runs: those not later than misfire_grace_time.
InGrace(run_times) ==
  {i \in 1..Len(run_times) : 60 * (sched.now - run_times[i]) <= misfire_grace_time}

InstancesOf(id) ==
  IF id \in DOMAIN sched.instances THEN sched.instances[id].count ELSE 0

Instance(job, count) == [count |-> count, func |-> job.func, args |-> job.args]

\* The job after its run times were handed to the executor: a date job leaves
\* the store, a cron job gets its next fire time after the clock.
Processed(store, job) ==
  IF job.trigger = "date" THEN store \ {job}
  ELSE (store \ {job})
         \cup {[job EXCEPT !.next_run_time = NextFireTime(job, sched.now + 1)]}

\* The dispatcher handles one due job: the executor refuses it while
\* max_instances executions of the job id are running, and drops the run times
\* that are later than the grace time.  The event carries the number of fire
\* times that had passed.
Submit(j, free, runs) ==
  /\ jobs' = Processed(jobs, j)
  /\ sched' = IF free /\ runs > 0
              THEN [sched EXCEPT !.instances =
                      Put(@, j.id, Instance(j, InstancesOf(j.id) + 1))]
              ELSE sched
  /\ last' = Event("dispatch", j.id, ToString(Len(RunTimes(j))),
                   IF ~free THEN "skipped" ELSE IF runs = 0 THEN "missed" ELSE "run",
                   IF free THEN runs ELSE 0)

Dispatch(j) ==
  /\ running
  /\ j \in jobs
  /\ j.next_run_time <= sched.now
  /\ Submit(j, InstancesOf(j.id) < max_instances,
            Cardinality(InGrace(Coalesced(RunTimes(j)))))
  /\ UNCHANGED << call, user_sessions, user_profiles, daily_workout_schedule,
                  authorized_users, running, threads, track >>

Dropped(f, key) == [k \in DOMAIN f \ {key} |-> f[k]]

\* An execution returns; the body of a daily-plan job is send_daily_workout_plan.
Complete(id) ==
  /\ id \in DOMAIN sched.instances
  /\ sched' = [sched EXCEPT !.instances =
                 IF sched.instances[id].count = 1 THEN Dropped(@, id)
                 ELSE Put(@, id, [@[id] EXCEPT !.count = @ - 1])]
  /\ IF sched.instances[id].func = "send_daily_workout_plan"
     THEN send_daily_workout_plan(sched.instances[id].args)
     ELSE /\ last' = Event("job", id, "", "sent", 0)
          /\ UNCHANGED << user_sessions, track >>
  /\ UNCHANGED << call, user_profiles, daily_workout_schedule, authorized_users,
                  jobs, running, threads >>

\* The clock advances while neither the dispatcher nor the webhook runs.
TickSteps == {5, DayMinutes}

MaxTicks == 3

Tick(d) ==
  /\ sched.ticks < MaxTicks
  /\ sched' = [sched EXCEPT !.now = @ + d, !.ticks = @ + 1]
  /\ last' = Event("tick", << >>, "", "", 0)
  /\ UNCHANGED << call, user_sessions, user_profiles, daily_workout_schedule,
                  authorized_users, jobs, running, threads, track >>

\* table admin_users
admin_users == {U1}

is_admin(sender) == sender \in admin_users

\* incoming_msg.upper() on a phone number
Upper(phone) ==
  [i \in 1..Len(phone) |-> IF phone[i] = "whatsapp" THEN "WHATSAPP" ELSE phone[i]]

\* deactivate_workout_schedule: UPDATE ... SET active = false WHERE phone_number
deactivate_workout_schedule(table, phone) ==
  IF phone \in DOMAIN table
  THEN [ok |-> TRUE, table |-> Put(table, phone, [table[phone] EXCEPT !.active = FALSE])]
  ELSE [ok |-> FALSE, table |-> table]

\* "ADMIN DISABLE_DAILY <phone>": handle_admin_command works on the upper-cased
\* message, phone = parts[2] of it.
AdminDisableDaily(sender, phone) ==
  /\ IF ~is_admin(sender)
     THEN /\ last' = Event("admin", sender, phone, "admin_denied", 0)
          /\ UNCHANGED daily_workout_schedule
     ELSE \E r \in {deactivate_workout_schedule(daily_workout_schedule, Upper(phone))} :
            /\ daily_workout_schedule' = r.table
            /\ last' = Event("admin", sender, phone,
                             IF r.ok THEN "deactivated" ELSE "not_found", 0)
  /\ UNCHANGED << sched, call, user_sessions, user_profiles, authorized_users, jobs,
                  running, threads, track >>

\* One-off jobs waiting in the store.
OneOffs(store) == {j \in store : j.trigger = "date"}

MaxOneOffs == 2

\* The state the timed scheduler starts from: five minutes before 18:00 IST,
\* the server's local time being UTC or IST; U1 has answered the last
\* onboarding question, has not confirmed yet and has an active schedule row
\* for 18:00; U2 is not authorized.
SchedSession == GuardSession("done", "70kg", "180cm", "build muscle")

SchedRows == Put(Empty, U1, Row(FormatHHMM(18, 0)))

\* The utterances sent while the clock is modelled.
SchedMessages ==
  {"yes", "my weight is now 80kg", "actually i bought a new phone",
   "remind me at 6pm", "remind me to drink water in 30 minutes"}

InitSched ==
  /\ \E utcoffset \in {0, IST_OFFSET_MINUTES} : sched = Clock(12 * 60 + 25, utcoffset)
  /\ call = NoCall
  /\ \E startOk \in BOOLEAN :
       \E boot \in {init_scheduler(SchedRows, {U1}, startOk)} :
          /\ user_sessions = Put(Empty, U1, SchedSession)
          /\ user_profiles = Put(Empty, U1, ProfileData(SchedSession))
          /\ daily_workout_schedule = boot.table
          /\ authorized_users = {U1}
          /\ jobs = boot.jobs
          /\ running = boot.running
          /\ threads = << >>
          /\ last = Event("init", << >>, "", "", 0)
          /\ track = [u \in Users |->
                        [NoTrack EXCEPT !.scheduled =
                           BootScheduled(SchedRows, {U1}, boot.running)[u]]]

\* The dispatcher over two days and the admin command.
NextSched ==
  \/ \E d \in TickSteps : Tick(d)
  \/ \E j \in jobs : Dispatch(j)
  \/ \E id \in DOMAIN sched.instances : Complete(id)
  \/ \E sender \in Users, phone \in Users : AdminDisableDaily(sender, phone)

SpecSched == InitSched /\ [][NextSched]_vars

\* The one-off jobs: the dispatcher with the done stage of the webhook and the
\* thread that registers the motivational message.
NextOneOff ==
  \/ Tick(5)
  \/ \E j \in jobs : Dispatch(j)
  \/ \E id \in DOMAIN sched.instances : Complete(id)
  \/ \E msg \in SchedMessages :
       Cardinality(OneOffs(jobs)) < MaxOneOffs /\ Done(U1, msg)
  \/ \E i \in 1..MaxThreads : RunProcessAndReply(i)

SpecOneOff == InitSched /\ [][NextOneOff]_vars

(***************************************************************************)
(* Start-up recovery alone: the process starts, again and again, over the  *)
(* schedule rows the database may hold.                                    *)
(***************************************************************************)
\* Rows of daily_workout_schedule: a time that is in range or not, the
\* timezone column at its default or not, the active flag set or not.
BootRows ==
  { [Row(t) EXCEPT !.timezone = tz, !.active = a] :
      t \in {FormatHHMM(18, 0), FormatHHMM(25, 0)},
      tz \in {"Asia/Kolkata", "America/New_York"},
      a \in BOOLEAN }

InitBoot ==
  /\ sched = Clock(12 * 60 + 25, 0)
  /\ call = NoCall
  /\ \E phones \in SUBSET Users, authorized \in SUBSET Users, startOk \in BOOLEAN :
       \E table \in [phones -> BootRows] :
         \E boot \in {init_scheduler(table, authorized, startOk)} :
            /\ user_sessions = Empty
            /\ user_profiles = Empty
            /\ daily_workout_schedule = boot.table
            /\ authorized_users = authorized
            /\ jobs = boot.jobs
            /\ running = boot.running
            /\ threads = << >>
            /\ last = Event("init", << >>, "", "", 0)
            /\ track = [u \in Users |->
                          [NoTrack EXCEPT !.scheduled =
                             BootScheduled(table, authorized, boot.running)[u]]]

NextBoot == Restart

SpecBoot == InitBoot /\ [][NextBoot]_vars


(***************************************************************************)
(* The reminder parsers.  Text is a sequence of characters; the regular    *)
(* expressions of parse_reminder_fallback are matched as re matches them:  *)
(* leftmost, greedy, alternatives in the order written.  The utterances of *)
(* the model are lower-case, so lower() and IGNORECASE change nothing.     *)
(***************************************************************************)
\* The literal w stands in s at position i.
Has(s, i, w) == i + Len(w) - 1 <= Len(s) /\ SubSeq(s, i, i + Len(w) - 1) = w

\* The length of the longest run of characters of class S in s from position i
\* (\s+, \s*, \d+).
Run(s, i, S) ==
  CHOOSE n \in 0..(Len(s) + 1 - i) :
    /\ \A k \in i..(i + n - 1) : s[k] \in S
    /\ i + n <= Len(s) => s[i + n] \notin S

\* (second|minute|hour|day) at position i, << >> when none stands there.
UnitNames == << << "s", "e", "c", "o", "n", "d" >>, << "m", "i", "n", "u", "t", "e" >>, << "h", "o", "u", "r" >>, << "d", "a", "y" >> >>

UnitAt(s, i) ==
  IF \E k \in 1..Len(UnitNames) : Has(s, i, UnitNames[k])
  THEN UnitNames[CHOOSE k \in 1..Len(UnitNames) :
                   /\ Has(s, i, UnitNames[k])
                   /\ \A m \in 1..(k - 1) : ~Has(s, i, UnitNames[m])]
  ELSE << >>

NoMatch == [end |-> 0, a |-> 0, b |-> 0, word |-> << >>]

\* r"in\s+(\d+)\s*(second|minute|hour|day)s?" matched at position i: the
\* position after the match (0 for no match), group 1 as a number, group 2.
MatchInAt(s, i, d, u) ==
  IF Run(s, d, Digits) = 0 \/ UnitAt(s, u) = << >> THEN NoMatch
  ELSE [end |-> u + Len(UnitAt(s, u))
                  + (IF Has(s, u + Len(UnitAt(s, u)), << "s" >>) THEN 1 ELSE 0),
        a |-> IntOf(SubSeq(s, d, d + Run(s, d, Digits) - 1)), b |-> 0,
        word |-> UnitAt(s, u)]

MatchIn(s, i) ==
  IF ~Has(s, i, << "i", "n" >>) \/ Run(s, i + 2, {" "}) = 0 THEN NoMatch
  ELSE MatchInAt(s, i, i + 2 + Run(s, i + 2, {" "}),
                 i + 2 + Run(s, i + 2, {" "})
                   + Run(s, i + 2 + Run(s, i + 2, {" "}), Digits)
                   + Run(s, i + 2 + Run(s, i + 2, {" "})
                               + Run(s, i + 2 + Run(s, i + 2, {" "}), Digits), {" "}))

\* r"at\s+(\d{1,2}):(\d{2})\s*(am|pm)?" matched at position i: \d{1,2} must
\* start where the white space ends and be followed by the colon.
MatchAtAt(s, h, n, m) ==
  IF ~(n \in {1, 2} /\ Has(s, h + n, << ":" >>) /\ Run(s, m, Digits) >= 2) THEN NoMatch
  ELSE LET p == m + 2 + Run(s, m + 2, {" "})
           meridiem == IF Has(s, p, << "a", "m" >>) THEN << "a", "m" >>
                       ELSE IF Has(s, p, << "p", "m" >>) THEN << "p", "m" >>
                       ELSE << >>
       IN [end |-> p + Len(meridiem),
           a |-> IntOf(SubSeq(s, h, h + n - 1)), b |-> IntOf(SubSeq(s, m, m + 1)),
           word |-> meridiem]

MatchAt(s, i) ==
  IF ~Has(s, i, << "a", "t" >>) \/ Run(s, i + 2, {" "}) = 0 THEN NoMatch
  ELSE LET h == i + 2 + Run(s, i + 2, {" "})
           all == Run(s, h, Digits)
           n == IF all >= 2 /\ Has(s, h + 2, << ":" >>) THEN 2
                ELSE IF all >= 1 /\ Has(s, h + 1, << ":" >>) THEN 1 ELSE 0
       IN MatchAtAt(s, h, n, h + n + 1)

Match(pattern, s, i) == IF pattern = "in" THEN MatchIn(s, i) ELSE MatchAt(s, i)

\* re.search: the leftmost match, NoMatch when there is none.
Search(pattern, s) ==
  IF \E i \in 1..Len(s) : Match(pattern, s, i).end > 0
  THEN Match(pattern, s, CHOOSE i \in 1..Len(s) :
                            /\ Match(pattern, s, i).end > 0
                            /\ \A k \in 1..(i - 1) : Match(pattern, s, k).end = 0)
  ELSE NoMatch

\* re.sub(pattern, "", s): every match is removed, from left to right.
RECURSIVE Sub(_, _)
Sub(pattern, s) ==
  IF Search(pattern, s).end = 0 THEN s
  ELSE LET i == CHOOSE k \in 1..Len(s) :
                  /\ Match(pattern, s, k).end > 0
                  /\ \A m \in 1..(k - 1) : Match(pattern, s, m).end = 0
       IN SubSeq(s, 1, i - 1)
            \o Sub(pattern, SubSeq(s, Search(pattern, s).end, Len(s)))

\* r"^(remind|remind me|set reminder?)\s+(to\s+)?": the position after the
\* alternative that matches, the first in the order written being taken
\* when white space follows it; 0 when none does.
AfterImperative(s) ==
  IF Has(s, 1, << "r", "e", "m", "i", "n", "d" >>) /\ Run(s, 7, {" "}) > 0 THEN 7
  ELSE IF Has(s, 1, << "r", "e", "m", "i", "n", "d", " ", "m", "e" >>) /\ Run(s, 10, {" "}) > 0 THEN 10
  ELSE IF Has(s, 1, << "s", "e", "t", " ", "r", "e", "m", "i", "n", "d", "e", "r" >>) /\ Run(s, 13, {" "}) > 0 THEN 13
  ELSE IF Has(s, 1, << "s", "e", "t", " ", "r", "e", "m", "i", "n", "d", "e" >>) /\ Run(s, 12, {" "}) > 0 THEN 12
  ELSE 0

\* re.sub of that pattern by "": white space, then "to" and white space if
\* they stand there, go with the imperative.
StripImperative(s) ==
  IF AfterImperative(s) = 0 THEN s
  ELSE LET p == AfterImperative(s) + Run(s, AfterImperative(s), {" "})
       IN IF Has(s, p, << "t", "o" >>) /\ Run(s, p + 2, {" "}) > 0
          THEN SubSeq(s, p + 2 + Run(s, p + 2, {" "}), Len(s))
          ELSE SubSeq(s, p, Len(s))

\* The white space of the utterances and texts of the model.
Whitespace == {" ", "\n"}

\* str.strip()
RECURSIVE Strip(_)
Strip(s) ==
  IF Len(s) > 0 /\ s[1] \in Whitespace THEN Strip(Tail(s))
  ELSE IF Len(s) > 0 /\ s[Len(s)] \in Whitespace THEN Strip(SubSeq(s, 1, Len(s) - 1))
  ELSE s

\* task = re.sub(time pattern) ; re.sub(imperative) ; task.strip() or "Your reminder"
TaskOf(pattern, message) ==
  IF Strip(StripImperative(Sub(pattern, message))) = << >> THEN << "Y", "o", "u", "r", " ", "r", "e", "m", "i", "n", "d", "e", "r" >>
  ELSE Strip(StripImperative(Sub(pattern, message)))

\* timedelta(<unit>=1), in seconds.
UnitSeconds(unit) ==
  CASE unit = << "s", "e", "c", "o", "n", "d" >> -> 1 [] unit = << "m", "i", "n", "u", "t", "e" >> -> 60 [] unit = << "h", "o", "u", "r" >> -> 3600
    [] OTHER -> DayMinutes * 60

\* Parse results: the task and the fire time, an IST wall-clock time in
\* seconds; (None, None), written with an empty task and the time 0; and a
\* ValueError that leaves the parser.
Parsed(task, remind_time) == [task |-> task, remind_time |-> remind_time]

NoneNone == Parsed(<< >>, 0)

Raised == Parsed(<< "ValueError" >>, 0)

\* now_ist.replace(hour=hour, minute=minute, second=0), a day later when that
\* is before now_ist; replace raises ValueError outside 0..23 and 0..59.
AtClock(hour, minute, is_tomorrow) ==
  LET remind_time == ((NowIst \div DayMinutes) * DayMinutes + hour * 60 + minute) * 60
  IN IF remind_time < 60 * NowIst \/ is_tomorrow
     THEN remind_time + DayMinutes * 60 ELSE remind_time

\* The "at HH:MM" branch, m being its match.
FallbackAt(message, m) ==
  LET hour == IF m.word = << "p", "m" >> /\ m.a # 12 THEN m.a + 12
              ELSE IF m.word = << "a", "m" >> /\ m.a = 12 THEN 0 ELSE m.a
  IN IF hour > 23 \/ m.b > 59 THEN Raised
     ELSE Parsed(TaskOf("at", message), AtClock(hour, m.b, FALSE))

parse_reminder_fallback(message) ==
  IF Search("in", Strip(message)).end > 0
  THEN Parsed(TaskOf("in", Strip(message)),
              60 * NowIst + Search("in", Strip(message)).a
                              * UnitSeconds(Search("in", Strip(message)).word))
  ELSE IF Search("at", Strip(message)).end > 0
  THEN FallbackAt(Strip(message), Search("at", Strip(message)))
  ELSE NoneNone

\* What llm.invoke gives parse_reminder_with_llm: an exception, text that is
\* not JSON, or a JSON object; confidence is in tenths (a missing key reads as
\* 0), an absent hour is -1.
LlmJson(confidence, task, time_type, relative_amount, relative_unit, absolute_hour, is_tomorrow) ==
  [kind |-> "json", confidence |-> confidence, task |-> task, time_type |-> time_type,
   relative_amount |-> relative_amount, relative_unit |-> relative_unit,
   absolute_hour |-> absolute_hour, absolute_minute |-> 30, is_tomorrow |-> is_tomorrow]

LlmFailure(kind) == [LlmJson(0, << >>, "", 0, << >>, -1, FALSE) EXCEPT !.kind = kind]

LlmResponses ==
  {LlmFailure("raises"), LlmFailure("not_json")}
    \cup {LlmJson(c, t, "relative", a, << "m", "i", "n", "u", "t", "e", "s" >>, -1, FALSE) :
            c \in {0, 4, 5, 9}, t \in {<< >>, << "x" >>, << "d", "r", "i", "n", "k", " ", "w", "a", "t", "e", "r" >>}, a \in {0, 30}}
    \cup {LlmJson(c, << "d", "r", "i", "n", "k", " ", "w", "a", "t", "e", "r" >>, "absolute", 0, << >>, h, d) :
            c \in {4, 9}, h \in {-1, 18}, d \in BOOLEAN}

\* parse_reminder_with_llm on a response that parsed as JSON with enough
\* confidence.
LlmTime(response) ==
  IF response.time_type = "relative"
  THEN IF response.relative_amount # 0
          /\ \E k \in 1..Len(UnitNames) :
               response.relative_unit = UnitNames[k] \o << "s" >>
       THEN 60 * NowIst + response.relative_amount
                            * UnitSeconds(SubSeq(response.relative_unit, 1,
                                                 Len(response.relative_unit) - 1))
       ELSE 0
  ELSE IF response.time_type = "absolute" /\ response.absolute_hour \in 0..23
  THEN AtClock(response.absolute_hour, response.absolute_minute, response.is_tomorrow)
  ELSE 0

\* Without the confidence check.
parse_reminder_with_any_confidence(response) ==
  IF response.kind # "json" THEN NoneNone
  ELSE IF Len(response.task) < 2 THEN NoneNone
  ELSE IF LlmTime(response) = 0 THEN NoneNone
  ELSE Parsed(response.task, LlmTime(response))

parse_reminder_with_llm(response) ==
  IF response.kind # "json" THEN NoneNone
  ELSE IF response.confidence < 5 THEN NoneNone
  ELSE IF Len(response.task) < 2 THEN NoneNone
  ELSE IF LlmTime(response) = 0 THEN NoneNone
  ELSE Parsed(response.task, LlmTime(response))

\* parse_reminder_message(message, llm)
parse_reminder_message(message, response) ==
  IF parse_reminder_with_llm(response) # NoneNone THEN parse_reminder_with_llm(response)
  ELSE parse_reminder_fallback(message)

\* The utterances parsed: "remind me to <task> <when>", and others.
ReminderTasks == {<< "d", "r", "i", "n", "k", " ", "w", "a", "t", "e", "r" >>, << "s", "t", "r", "e", "t", "c", "h" >>}

ReminderTimes == {<< "i", "n", " ", "3", "0", " ", "m", "i", "n", "u", "t", "e", "s" >>, << "i", "n", " ", "2", " ", "h", "o", "u", "r", "s" >>, << "a", "t", " ", "1", "8", ":", "3", "0" >>, << "a", "t", " ", "6", "p", "m" >>}

ParseMessages ==
  {<< "r", "e", "m", "i", "n", "d", " ", "m", "e" >> \o << " ", "t", "o", " " >> \o task \o << " " >> \o when :
     task \in ReminderTasks, when \in ReminderTimes}
    \cup {<< "s", "e", "t", " ", "r", "e", "m", "i", "n", "d", "e", "r" >> \o << " " >> \o << "i", "n", " ", "2", " ", "h", "o", "u", "r", "s" >>, << "r", "e", "m", "i", "n", "d", " ", "m", "e" >> \o << " " >> \o << "i", "n", " ", "3", "0", " ", "m", "i", "n", "u", "t", "e", "s" >>
            \o << " ", "t", "o", " " >> \o << "s", "t", "r", "e", "t", "c", "h" >>,
          << "s", "e", "t", " ", "r", "e", "m", "i", "n", "d", "e", "r", " ", "a", "t", " ", "6", "p", "m", " ", "f", "o", "r", " ", "w", "o", "r", "k", "o", "u", "t" >>,
          << "s", "e", "t", " ", "r", "e", "m", "i", "n", "d", "e", "r", " ", "a", "t", " ", "6", ":", "0", "0", "p", "m", " ", "f", "o", "r", " ", "w", "o", "r", "k", "o", "u", "t" >>,
          << "r", "e", "m", "i", "n", "d", " ", "m", "e", " ", "a", "t", " ", "2", "5", ":", "0", "0" >>,
          << "r", "e", "m", "i", "n", "d", " ", "m", "e", " ", "a", "t", " ", "1", "3", ":", "0", "0", "p", "m" >>,
          << "r", "e", "m", "i", "n", "d", " ", "m", "e", " ", "a", "t", " ", "9", ":", "7", "5" >>}

\* One call at a time: fn is called with args and returns result.
Called(fn, args, result) ==
  /\ call = NoCall
  /\ call' = [fn |-> fn, args |-> args, result |-> result]
  /\ UNCHANGED << sched, user_sessions, user_profiles, daily_workout_schedule,
                  authorized_users, jobs, running, threads, last, track >>

CallFallback(message) ==
  Called("parse_reminder_fallback", << message >>, parse_reminder_fallback(message))

CallMessage(message, response) ==
  Called("parse_reminder_message", << message, response >>,
         parse_reminder_message(message, response))

\* The caller has taken the result.
Returned ==
  /\ call # NoCall
  /\ call' = NoCall
  /\ UNCHANGED << sched, user_sessions, user_profiles, daily_workout_schedule,
                  authorized_users, jobs, running, threads, last, track >>

\* The parsers are called at 17:55 or at 18:55 IST.
InitParse ==
  /\ \E now \in {12 * 60 + 25, 13 * 60 + 25} : sched = Clock(now, 0)
  /\ call = NoCall
  /\ user_sessions = Empty
  /\ user_profiles = Empty
  /\ daily_workout_schedule = Empty
  /\ authorized_users = {}
  /\ jobs = {}
  /\ running = FALSE
  /\ threads = << >>
  /\ last = Event("init", << >>, "", "", 0)
  /\ track = [u \in Users |-> NoTrack]

NextParse ==
  \/ \E message \in ParseMessages : CallFallback(message)
  \/ \E message \in ParseMessages, response \in LlmResponses :
       CallMessage(message, response)
  \/ Returned

SpecParse == InitParse /\ [][NextParse]_vars


(***************************************************************************)
(* Vocabulary of the properties.                                           *)
(***************************************************************************)
Successor(step) ==
  CASE step = "basic" -> "personalize"
    [] step = "personalize" -> "health"
    [] step = "health" -> "lifestyle"
    [] step = "lifestyle" -> "workout_prefs"
    [] step = "workout_prefs" -> "done"
    [] OTHER -> "none"

Required(step) ==
  CASE step = "basic" -> {"name", "age", "gender"}
    [] step = "personalize" -> {"weight", "height", "fitness_goal"}
    [] step = "lifestyle" -> {"diet_preference", "activity_level", "stress_level"}
    [] step = "workout_prefs" -> {"workout_duration", "workout_location"}
    [] OTHER -> {}

\* This step is whatsapp_webhook handling msg for u, who had a session (stored,
\* or restorable from the stored profile).
HandledStep(u, msg) ==
  /\ last'.op = "webhook" /\ last'.sender = u /\ last'.msg = msg
  /\ Handles(u)
  /\ u \in DOMAIN user_sessions'

DailyJobsOf(store, u) == {j \in store : j.func = "send_daily_workout_plan" /\ j.args = u}

JobAt(j, hhmm) ==
  /\ j.trigger = "cron"
  /\ j.hour = IntOf(SplitColon(hhmm)[1])
  /\ j.minute = IntOf(SplitColon(hhmm)[2])

C2_JobSurvivesRestart ==
  \A u \in Users :
    /\ (track[u].registered # << >> /\ last.op = "restart" /\ running) =>
         \E j \in jobs : j.id = DailyJobId(u, track[u].registered)
                         /\ JobAt(j, track[u].registered)
    /\ (last.reply = "confirmed_scheduled" /\ last.sender = u) =>
         /\ u \in DOMAIN daily_workout_schedule
         /\ daily_workout_schedule[u].active
         /\ daily_workout_schedule[u].preferred_time = track[u].registered

\* C3: a non-skip utterance handled in basic, personalize, lifestyle or
\* workout_prefs moves the session to the next stage exactly when every required
\* field of the stage is non-null after the merge; otherwise the stage is unchanged.
C3_AdvanceIffRequired ==
  [][\A u \in Users, msg \in Messages :
       (/\ HandledStep(u, msg)
        /\ ~IsSkip(msg)
        /\ Required(SessionAt(u).onboarding_step) # {}) =>
         LET before == SessionAt(u)
             after == user_sessions'[u]
             complete == \A f \in Required(before.onboarding_step) : after[f] # NULL
         IN after.onboarding_step = IF complete THEN Successor(before.onboarding_step)
                                    ELSE before.onboarding_step]_vars

\* A non-skip answer completed weight, height and fitness_goal and the stage
\* advanced.
C3_Witness ==
  /\ last.op = "webhook" /\ last.reply = "personalize_ok" /\ ~IsSkip(last.msg)
  /\ user_sessions[last.sender].onboarding_step = "health"
  /\ user_sessions[last.sender].weight = "70kg"
  /\ user_sessions[last.sender].name = "Nexi"

\* C4: a session's onboarding_step only ever changes to the next stage of
\* basic, personalize, health, lifestyle, workout_prefs, done, or back to
\* personalize while weight, height or fitness_goal is missing.
C4_SuccessorOrBackward ==
  [][\A u \in DOMAIN user_sessions \cap DOMAIN user_sessions' :
       LET before == user_sessions[u]
           after == user_sessions'[u]
       IN after.onboarding_step # before.onboarding_step =>
            \/ after.onboarding_step = Successor(before.onboarding_step)
            \/ /\ after.onboarding_step = "personalize"
               /\ CriticalMissing(after)]_vars

\* The last stage change of the chain has been taken: workout_prefs to done, by
\* the thread that "skip" started.
C4_Witness ==
  /\ last.op = "thread" /\ last.reply = "skip_plan"
  /\ user_sessions[last.sender].onboarding_step = "done"
  /\ ~track[last.sender].restored

\* C5: a session that reached done through onboarding has its profile in
\* user_profiles with profile_completed set, and is unconfirmed until the
\* confirmation handler has received a reply.
C5_DoneIsSavedAndUnconfirmed ==
  \A u \in DOMAIN user_sessions :
    (user_sessions[u].onboarding_step = "done" /\ ~track[u].restored) =>
      /\ u \in DOMAIN user_profiles
      /\ user_profiles[u].profile_completed
      /\ ~track[u].replied => ~user_sessions[u].profile_confirmed

\* C6: of consecutive replies in the confirmation sub-protocol that are neither
\* affirmative nor negative, the first and the second only re-prompt, and the
\* third sets profile_confirmed with one thread started over the three.
C6_AutoConfirmOnThird ==
  [][\A u \in Users, msg \in Messages :
       (/\ HandledStep(u, msg)
        /\ InConfirmation(SessionAt(u))
        /\ ~IsAffirmative(msg) /\ ~IsNegative(msg)) =>
         /\ track[u].run < 2 =>
              /\ last'.reply = "please_confirm"
              /\ ~user_sessions'[u].profile_confirmed
              /\ last'.started = 0
         /\ track[u].run = 2 =>
              /\ user_sessions'[u].profile_confirmed
              /\ track'[u].runThreads = 1]_vars


\* C7: the third consecutive ambiguous reply leaves what 'yes' would leave in
\* its place: profile_confirmed, the stored profile marked completed, the job
\* store with the identity's daily-plan job (scheduler running), and one thread
\* started.
C7_AutoConfirmAsAffirmative ==
  [][\A u \in Users, msg \in Messages :
       (/\ HandledStep(u, msg)
        /\ InConfirmation(SessionAt(u))
        /\ ~HasReminderKeyword(msg) /\ ~IsAffirmative(msg) /\ ~IsNegative(msg)
        /\ SessionAt(u).confirmation_attempts = 2
        /\ running) =>
         \A yes \in {ConfirmAffirmative(u, SessionAt(u), "yes", jobs,
                                        daily_workout_schedule, user_profiles, running)} :
            /\ user_sessions'[u].profile_confirmed = yes.session.profile_confirmed
            /\ user_profiles' = yes.profiles
            /\ jobs' = yes.jobs
            /\ DailyJobsOf(jobs', u) # {}
            /\ last'.started = Len(yes.started)]_vars

C9_NegativeKeepsUnconfirmed ==
  [][\A u \in Users, msg \in Messages :
       (/\ HandledStep(u, msg)
        /\ InConfirmation(SessionAt(u))
        /\ IsNegative(msg)) =>
         /\ last'.reply = "what_to_change"
         /\ user_sessions'[u].profile_completed
         /\ ~user_sessions'[u].profile_confirmed]_vars

\* C9 amended: a negative reply in the confirmation sub-protocol prompts for
\* corrections, resets the attempt counter, leaves profile_completed true and
\* sets profile_confirmed, so that the next reply goes to intent dispatch; no
\* job is registered, no thread started and nothing is written to the tables.
C9_NegativeConfirms ==
  [][\A u \in Users, msg \in Messages :
       (/\ HandledStep(u, msg)
        /\ InConfirmation(SessionAt(u))
        /\ IsNegative(msg)) =>
         /\ last'.reply = "what_to_change"
         /\ user_sessions'[u].profile_completed
         /\ user_sessions'[u].profile_confirmed
         /\ user_sessions'[u].confirmation_attempts = 0
         /\ ~InConfirmation(user_sessions'[u])
         /\ last'.started = 0
         /\ UNCHANGED << jobs, threads, user_profiles, daily_workout_schedule >>]_vars

\* 'no' has been handled in the sub-protocol.
C9_Witness ==
  /\ last.op = "webhook" /\ IsNegative(last.msg)
  /\ last.reply = "what_to_change"
  /\ user_sessions[last.sender].onboarding_step = "done"
  /\ user_sessions[last.sender].profile_completed

\* C10: a non-skip utterance in workout_prefs after which workout_duration and
\* workout_location are set, while weight, height or fitness_goal is missing,
\* puts the stage back to personalize, writes nothing to user_profiles and does
\* not set profile_completed.
C10_BackwardGuard ==
  [][\A u \in Users, msg \in Messages :
       (/\ HandledStep(u, msg)
        /\ SessionAt(u).onboarding_step = "workout_prefs"
        /\ ~IsSkip(msg)
        /\ CriticalMissing(SessionAt(u))
        /\ Truthy(user_sessions'[u].workout_duration)
        /\ Truthy(user_sessions'[u].workout_location)) =>
         /\ user_sessions'[u].onboarding_step = "personalize"
         /\ user_profiles' = user_profiles
         /\ ~user_sessions'[u].profile_completed]_vars

\* The guard has acted: duration and location are in the session, the stage is
\* personalize and there is no profile row.
C10_Witness ==
  /\ last.op = "webhook" /\ last.reply = "need_critical" /\ ~IsSkip(last.msg)
  /\ Truthy(user_sessions[last.sender].workout_duration)
  /\ Truthy(user_sessions[last.sender].workout_location)
  /\ ~user_sessions[last.sender].profile_completed
  /\ last.sender \notin DOMAIN user_profiles

\* The values the skip branch of each stage writes.  basic has no skip branch.
SkipDefaults(step) ==
  CASE step = "personalize" ->
         [weight |-> "70kg", height |-> "5'8", fitness_goal |-> "overall fitness"]
    [] step = "health" ->
         [medical_conditions |-> "None", injuries |-> "None", allergies |-> "None"]
    [] step = "lifestyle" ->
         [diet_preference |-> "Mixed", activity_level |-> "Moderately Active",
          stress_level |-> "Moderate"]
    [] step = "workout_prefs" ->
         [workout_duration |-> "30 minutes", workout_location |-> "Home",
          workout_time |-> "Flexible", exercises_to_avoid |-> "None"]
    [] OTHER -> Empty

\* What "skip" handled at a stage leaves: the defaults where the session had no
\* value (health writes them over what it had), the required fields of the stage
\* set, and the stage advanced; at workout_prefs the handler starts the
\* handle_skip_and_generate_plan thread, which makes the stage change.
SkipHandled(u, step) ==
  LET before == SessionAt(u)
      after == user_sessions'[u]
  IN /\ \A f \in DOMAIN SkipDefaults(step) :
          after[f] = IF step = "health" THEN SkipDefaults(step)[f]
                     ELSE Or(before[f], SkipDefaults(step)[f])
     /\ \A f \in Required(step) : Truthy(after[f])
     /\ IF step = "workout_prefs"
        THEN /\ after.onboarding_step = "workout_prefs"
             /\ threads' = Append(threads,
                                  Task("handle_skip_and_generate_plan", u, FALSE, ""))
        ELSE after.onboarding_step = Successor(step)

\* C11 as stated: "skip" handled at basic, personalize, health, lifestyle or
\* workout_prefs applies the stage's defaults, leaves the required fields of the
\* stage set and advances the stage.
C11_SkipAtEveryStage ==
  [][\A u \in Users, msg \in Messages :
       (/\ HandledStep(u, msg)
        /\ IsSkip(msg)
        /\ SessionAt(u).onboarding_step
             \in {"basic", "personalize", "health", "lifestyle", "workout_prefs"}) =>
         SkipHandled(u, SessionAt(u).onboarding_step)]_vars

\* C11 amended: "skip" handled at personalize, health, lifestyle or workout_prefs
\* applies the stage's defaults, leaves the required fields of the stage set and
\* advances the stage (at workout_prefs through the thread the handler starts,
\* which sets the stage to done when it runs); basic has no skip directive.
C11_SkipFromPersonalizeOn ==
  [][/\ \A u \in Users, msg \in Messages :
          (/\ HandledStep(u, msg)
           /\ IsSkip(msg)
           /\ SessionAt(u).onboarding_step
                \in {"personalize", "health", "lifestyle", "workout_prefs"}) =>
            SkipHandled(u, SessionAt(u).onboarding_step)
     /\ (last'.op = "thread" /\ last'.reply = "skip_plan") =>
          user_sessions'[last'.sender].onboarding_step = "done"]_vars

\* "Skip" has been handled at lifestyle for a session without lifestyle values.
C11_Witness ==
  /\ last.op = "webhook" /\ IsSkip(last.msg) /\ last.reply = "lifestyle_skipped"
  /\ user_sessions[last.sender].onboarding_step = "workout_prefs"
  /\ user_sessions[last.sender].diet_preference = "Mixed"

\* The fields the stage handlers write from an extraction record.
MergedFields ==
  {"name", "age", "gender", "weight", "height", "fitness_goal", "medical_conditions",
   "injuries", "allergies", "diet_preference", "activity_level", "stress_level",
   "workout_duration", "workout_location", "workout_time", "exercises_to_avoid"}

\* A value the user gave: set, and not the "None" the handlers write for an
\* empty extraction.
Provided(v) == Truthy(v) /\ v # "None"

\* C12: a non-skip utterance handled in an onboarding stage leaves every field
\* that held a user-provided value with a user-provided value: an extraction that
\* has nothing for the field does not replace it (medical_conditions, injuries,
\* allergies and exercises_to_avoid included, across turns in the same stage).
C12_MergeKeepsProvided ==
  [][\A u \in Users, msg \in Messages :
       (/\ HandledStep(u, msg)
        /\ ~IsSkip(msg)
        /\ SessionAt(u).onboarding_step
             \in {"basic", "personalize", "health", "lifestyle", "workout_prefs"}) =>
         \A f \in MergedFields :
            Provided(SessionAt(u)[f]) => Provided(user_sessions'[u][f])]_vars

\* C13: no job id ever has more than one execution running, and a job that
\* becomes due while an execution of its id is running is skipped: the
\* dispatcher starts nothing for it.
C13_OneInstancePerJob ==
  [][/\ \A id \in DOMAIN sched'.instances : sched'.instances[id].count <= 1
     /\ (last'.op = "dispatch" /\ InstancesOf(last'.sender) > 0) =>
          /\ last'.reply = "skipped"
          /\ last'.started = 0
          /\ sched'.instances = sched.instances]_vars

\* The daily-plan job came due a day later while its execution of the day
\* before was still running, and was skipped.
C13_Witness ==
  /\ last.op = "dispatch" /\ last.reply = "skipped"
  /\ last.sender = DailyJobId(U1, FormatHHMM(18, 0))
  /\ InstancesOf(last.sender) = 1

C16_DeactivatedHasNoJob ==
  \A u \in Users :
    (\/ (last.op = "admin" /\ is_admin(last.sender) /\ last.msg = u)
     \/ (u \in DOMAIN daily_workout_schedule /\ ~daily_workout_schedule[u].active)) =>
      DailyJobsOf(jobs, u) = {}

\* C17: every successful schedule_reminder call leaves one more reminder job
\* pending for the sender than there was before it, so that k calls whose
\* fire times are not reached leave k jobs.
C17_EachReminderAddsJob ==
  [][(last'.op = "webhook" /\ last'.reply = "reminder_set") =>
       Cardinality({j \in jobs' : j.func = "send_message_via_twilio"})
         = Cardinality({j \in jobs : j.func = "send_message_via_twilio"}) + 1]_vars

\* C18: every date job is due at the instant its registration denotes: a
\* reminder at its parsed fire time (18:00 IST, or 30 minutes after its
\* registration, which its id carries in seconds), a motivational message
\* WorkoutMinutes after its registration.
C18_OneOffAtAbsoluteInstant ==
  \A j \in jobs :
    /\ j.func = "send_motivational_message" =>
         ToString(60 * (j.run_date - WorkoutMinutes)) = j.id[Len(j.id)]
    /\ j.func = "send_message_via_twilio" =>
         \/ (j.run_date + IST_OFFSET_MINUTES) % DayMinutes = 18 * 60
         \/ ToString(60 * (j.run_date - 30)) = j.id[Len(j.id)]

C19_LowConfidenceFallsBack ==
  (/\ call.fn = "parse_reminder_message"
   /\ (call.args[2].kind # "json" \/ call.args[2].confidence < 5)) =>
     call.result = parse_reminder_fallback(call.args[1])

\* A primary parse "drink water, in 30 minutes" of confidence 0.4 was set
\* aside for the fallback's parse of "remind me to drink water in 30 minutes".
C19_Witness ==
  /\ call.fn = "parse_reminder_message"
  /\ call.args[2].kind = "json" /\ call.args[2].confidence = 4
  /\ call.args[2].task = << "d", "r", "i", "n", "k", " ", "w", "a", "t", "e", "r" >> /\ call.args[2].relative_amount = 30
  /\ call.result.task = << "m", "e", " ", "t", "o", " ", "d", "r", "i", "n", "k", " ", "w", "a", "t", "e", "r" >>

\* C20: for "remind me to <task> in 30 minutes" and "remind me to <task> in
\* 2 hours" parse_reminder_fallback returns the task alone and the clock plus
\* 30 minutes, or plus 2 hours.
C20_FallbackTaskAndTime ==
  \A task \in ReminderTasks :
    /\ (/\ call.fn = "parse_reminder_fallback"
        /\ call.args[1] = << "r", "e", "m", "i", "n", "d", " ", "m", "e", " ", "t", "o", " " >> \o task \o << " ", "i", "n", " ", "3", "0", " ", "m", "i", "n", "u", "t", "e", "s" >>) =>
          call.result = Parsed(task, 60 * NowIst + 30 * 60)
    /\ (/\ call.fn = "parse_reminder_fallback"
        /\ call.args[1] = << "r", "e", "m", "i", "n", "d", " ", "m", "e", " ", "t", "o", " " >> \o task \o << " ", "i", "n", " ", "2", " ", "h", "o", "u", "r", "s" >>) =>
          call.result = Parsed(task, 60 * NowIst + 2 * 3600)

\* C21: for "set reminder at 6pm for workout" and "set reminder at 6:00pm for
\* workout" parse_reminder_fallback returns the task "workout" and 18:00 IST
\* of today, or of tomorrow when 18:00 is past; the time is never before now.
C21_FallbackAtClock ==
  \A message \in {<< "s", "e", "t", " ", "r", "e", "m", "i", "n", "d", "e", "r", " ", "a", "t", " ", "6", "p", "m", " ", "f", "o", "r", " ", "w", "o", "r", "k", "o", "u", "t" >>, << "s", "e", "t", " ", "r", "e", "m", "i", "n", "d", "e", "r", " ", "a", "t", " ", "6", ":", "0", "0", "p", "m", " ", "f", "o", "r", " ", "w", "o", "r", "k", "o", "u", "t" >>} :
    (call.fn = "parse_reminder_fallback" /\ call.args[1] = message) =>
       /\ call.result = Parsed(<< "w", "o", "r", "k", "o", "u", "t" >>, AtClock(18, 0, FALSE))
       /\ call.result.remind_time >= 60 * NowIst

\* C22: a reminder request for which parse_reminder_message returned
\* (None, None) gets the usage examples; the step leaves the job store, the
\* session and the threads as they were, and the webhook handles it in one
\* step (one parse, no thread that would parse again).
C22_UnparsedReminderFails ==
  [][\A u \in Users :
       (/\ last'.op = "webhook" /\ last'.sender = u
        /\ Handles(u) /\ SessionAt(u).onboarding_step = "done"
        /\ HasReminderKeyword(last'.msg)) =>
         /\ \A ts \in Timestamps, add_ok \in BOOLEAN :
              StepDone(u, SessionAt(u), last'.msg, NoParse, NoUpdate, ts, add_ok, jobs,
                       daily_workout_schedule, user_profiles, running)
                = Outcome(SessionAt(u), user_profiles, jobs, daily_workout_schedule,
                          "reminder_examples", << >>)
         /\ last'.reply = "reminder_examples" =>
              /\ jobs' = jobs
              /\ threads' = threads
              /\ user_sessions'[u] = SessionAt(u)
              /\ last'.started = 0]_vars

\* A reminder request that could not be parsed was answered with the examples
\* while the scheduler was running.
C22_Witness ==
  /\ last.op = "webhook" /\ last.reply = "reminder_examples"
  /\ HasReminderKeyword(last.msg)
  /\ running

\* C23: the session from which a daily-plan job builds its plan (the one
\* user_sessions holds for the identity when the job returns) carries the
\* values of the identity's stored profile.
C23_PlanFromStoredProfile ==
  [][(last'.op = "job" /\ last'.reply = "plan") =>
       /\ last'.sender \in DOMAIN user_profiles
       /\ \A f \in ProfileFields \ {"bmi"} :
            user_sessions'[last'.sender][f] = user_profiles[last'.sender][f]]_vars

\* C24: an execution of the daily-plan job always returns: the step that ends
\* it leaves the job store as it was, with the identity's job in it, starts no
\* other execution, and has written last_plan_sent only if every chunk of the
\* plan was sent.
C24_PlanFailureContained ==
  [][(last'.op = "job" /\ last'.sender \in Users) =>
       /\ last'.reply \in {"plan", "error", "no_profile"}
       /\ jobs' = jobs
       /\ DailyJobsOf(jobs', last'.sender) # {}
       /\ \A id \in DOMAIN sched'.instances :
            /\ id \in DOMAIN sched.instances
            /\ sched'.instances[id].count <= sched.instances[id].count
       /\ last'.started = 1 =>
            \E n \in 1..MaxChunks : last'.msg = ToString(n) \o "/" \o ToString(n)]_vars

\* The second chunk of a plan could not be sent: the execution ended with the
\* plan not marked as sent and the job still registered.
C24_Witness ==
  /\ last.op = "job" /\ last.sender \in Users
  /\ last.reply = "error" /\ last.msg = "1/2" /\ last.started = 0
  /\ DailyJobsOf(jobs, last.sender) # {}

\* C25: when the scheduler is not running, or add_job raises, a parsed
\* reminder request is answered with the failure reply and the job store stays
\* as it was; no reminder request is answered with success while the
\* scheduler is not running.
C25_ReminderFailureReported ==
  [][\A u \in Users :
       (/\ last'.op = "webhook" /\ last'.sender = u
        /\ Handles(u) /\ SessionAt(u).onboarding_step = "done"
        /\ HasReminderKeyword(last'.msg)) =>
         /\ \A parsed \in parse_reminder_results(last'.msg) \ {NoParse},
               ts \in Timestamps, add_ok \in BOOLEAN :
              (~running \/ ~add_ok) =>
                StepDone(u, SessionAt(u), last'.msg, parsed, NoUpdate, ts, add_ok, jobs,
                         daily_workout_schedule, user_profiles, running)
                  = Outcome(SessionAt(u), user_profiles, jobs, daily_workout_schedule,
                            "reminder_failed", << >>)
         /\ last'.reply = "reminder_failed" => jobs' = jobs
         /\ ~running => last'.reply # "reminder_set"]_vars

\* A reminder request was parsed while the scheduler was not running and got
\* the failure reply.
C25_Witness ==
  /\ last.op = "webhook" /\ last.reply = "reminder_failed"
  /\ HasReminderKeyword(last.msg)
  /\ ~running

\* C26: while the profile is completed but unconfirmed, a handled message
\* registers no reminder job: the one-off jobs of the registry are those it
\* held before the message.
C26_NoIntentBeforeConfirmation ==
  [][\A u \in Users :
       (/\ last'.op = "webhook" /\ last'.sender = u
        /\ Handles(u) /\ InConfirmation(SessionAt(u))) =>
         OneOffs(jobs') \subseteq OneOffs(jobs)]_vars

\* C27: at the done stage with the profile confirmed, an utterance that is
\* neither fitness-related nor a reminder request gets the fixed refusal,
\* leaves the session as it was and starts no background task.
C27_OffTopicRefused ==
  [][\A u \in Users :
       (/\ last'.op = "webhook" /\ last'.sender = u
        /\ Handles(u) /\ SessionAt(u).onboarding_step = "done"
        /\ SessionAt(u).profile_confirmed
        /\ ~is_fitness_related(last'.msg) /\ ~HasReminderKeyword(last'.msg)) =>
         /\ last'.reply = "off_topic"
         /\ last'.started = 0
         /\ threads' = threads
         /\ user_sessions'[u] = SessionAt(u)]_vars

\* C28: when a message leaves the session at basic or at personalize, the
\* reply names exactly the required fields of that stage that the session
\* lacks after the merge.
C28_RepromptNamesStillMissing ==
  [][\A u \in Users :
       (/\ last'.op = "webhook" /\ last'.sender = u
        /\ Handles(u) /\ u \in DOMAIN user_sessions
        /\ SessionAt(u).onboarding_step \in {"basic", "personalize"}
        /\ user_sessions'[u].onboarding_step = SessionAt(u).onboarding_step) =>
         last'.reply =
           CouldntExtract(
             IF SessionAt(u).onboarding_step = "basic"
             THEN Missing(user_sessions'[u], << "name", "age", "gender" >>,
                          << "name", "age", "gender" >>)
             ELSE Missing(user_sessions'[u], << "weight", "height", "fitness_goal" >>,
                          << "weight", "height", "fitness goal" >>))]_vars

\* C29: for every session in memory and every record its stage's extractor can
\* return, the stage's merge applied to its own result gives that result
\* again: basic and personalize through update_session_from_extracted_data
\* and the body of the personalize stage, health, lifestyle and workout_prefs
\* through the merges of their handlers.
C29_MergeIdempotent ==
  \A u \in DOMAIN user_sessions :
    LET s == user_sessions[u]
        step == s.onboarding_step
    IN /\ step \in {"basic", "personalize"} =>
            \A r \in ExtractedUserInfo :
               LET once == update_session_from_extracted_data(s, r, step).session
               IN update_session_from_extracted_data(once, r, step).session = once
       /\ step = "personalize" =>
            \A r \in ExtractedUserInfo :
               LET once == StepPersonalize(s, "hello", r).session
               IN StepPersonalize(once, "hello", r).session = once
       /\ step = "health" =>
            \A r \in ExtractedHealth :
               LET once == StepHealth(s, "hello", r).session
               IN StepHealth(once, "hello", r).session = once
       /\ step = "lifestyle" =>
            \A r \in ExtractedLifestyle :
               LET once == StepLifestyle(s, "hello", r).session
               IN StepLifestyle(once, "hello", r).session = once
       /\ step = "workout_prefs" =>
            \A r \in ExtractedWorkout :
               LET once == StepWorkoutPrefs(s, "hello", r).session
               IN StepWorkoutPrefs(once, "hello", r).session = once

\* A session stayed at basic after a merge that filled in the name alone, so
\* that the next message of the stage is merged into the result of a merge.
C29_Witness ==
  /\ last.op = "webhook"
  /\ last.sender \in DOMAIN user_sessions
  /\ user_sessions[last.sender].onboarding_step = "basic"
  /\ Truthy(user_sessions[last.sender].name)
  /\ ~Truthy(user_sessions[last.sender].age)

(***************************************************************************)
(* The stage extractors as functions of the LLM's completion: the call     *)
(* raises, the completion is no JSON object, or it is a JSON object with   *)
(* any keys, those of the prompt or others.                                *)
(***************************************************************************)
HealthKeys == {"medical_conditions", "injuries", "allergies"}

WorkoutKeys ==
  {"workout_duration", "workout_location", "workout_time", "exercises_to_avoid"}

UserInfoKeys ==
  {"name", "age", "gender", "weight", "height", "fitness_goal", "injury",
   "time_restriction"}

\* A key no prompt asks for.
OtherKeys == {"notes"}

Completion(kind, json) == [kind |-> kind, json |-> json]

\* llm.invoke raised, or json.loads did.
FailedCompletions == {Completion("error", << >>), Completion("unparsable", << >>)}

Completions(keys) ==
  FailedCompletions
    \cup UNION {{Completion("json", json) : json \in [K -> {NULL, "x"}]} :
                  K \in SUBSET (keys \cup OtherKeys)}

\* default_data = {key: None, ...}
Defaults(keys) == [k \in keys |-> NULL]

\* {**default_data, **extracted_data}
Merged(default_data, extracted_data) ==
  [k \in DOMAIN default_data \cup DOMAIN extracted_data |->
     IF k \in DOMAIN extracted_data THEN extracted_data[k] ELSE default_data[k]]

\* try: json.loads, merge with the defaults; except: the defaults.
Extracted(keys, completion) ==
  IF completion.kind = "json" THEN Merged(Defaults(keys), completion.json)
  ELSE Defaults(keys)

extract_health_info(completion) == Extracted(HealthKeys, completion)

extract_workout_prefs(completion) == Extracted(WorkoutKeys, completion)

extract_user_info_from_text(completion) == Extracted(UserInfoKeys, completion)

\* The completions of the user-info prompt: the keys of one stage, with or
\* without a key of the other stages and one the prompt does not ask for.
UserInfoCompletions ==
  FailedCompletions
    \cup UNION {{Completion("json", json) : json \in [K -> {NULL, "x"}]} :
                  K \in {S \cup T : S \in SUBSET {"name", "age", "gender"},
                                    T \in SUBSET ({"weight"} \cup OtherKeys)}}

CallHealth(completion) ==
  Called("extract_health_info", << completion >>, extract_health_info(completion))

CallWorkout(completion) ==
  Called("extract_workout_prefs", << completion >>, extract_workout_prefs(completion))

CallUserInfo(completion) ==
  Called("extract_user_info_from_text", << completion >>,
         extract_user_info_from_text(completion))

NextExtract ==
  \/ \E completion \in Completions(HealthKeys) : CallHealth(completion)
  \/ \E completion \in Completions(WorkoutKeys) : CallWorkout(completion)
  \/ \E completion \in UserInfoCompletions : CallUserInfo(completion)
  \/ Returned

SpecExtract == InitParse /\ [][NextExtract]_vars

\* The fixed field names of the extractor that was called.
KeysOf(fn) ==
  IF fn = "extract_health_info" THEN HealthKeys
  ELSE IF fn = "extract_workout_prefs" THEN WorkoutKeys
  ELSE UserInfoKeys

\* C30: the record a stage extractor returns has exactly the stage's fixed
\* field names as its keys, and all of them null when the call to the LLM
\* failed or its completion could not be parsed.
C30_ExtractorKeysFixed ==
  call.fn \in {"extract_health_info", "extract_workout_prefs",
               "extract_user_info_from_text"} =>
    /\ DOMAIN call.result = KeysOf(call.fn)
    /\ call.args[1].kind # "json" => \A k \in KeysOf(call.fn) : call.result[k] = NULL

(***************************************************************************)
(* smart_chunk, one iteration of its while loop per step.  The texts are   *)
(* character sequences; positions are Python's, counted from 0, and -1     *)
(* says that nothing was found.                                            *)
(***************************************************************************)
MaxText == 5
MaxCeiling == 3
MaxParts == 6

ChunkAlphabet == {"a", ".", " ", "\n"}

ChunkTexts == UNION {[1..n -> ChunkAlphabet] : n \in 0..MaxText}

Max(a, b) == IF a > b THEN a ELSE b

\* s.rfind(w)
RFind(s, w) ==
  IF \E i \in 1..Len(s) : Has(s, i, w)
  THEN (CHOOSE i \in 1..Len(s) :
          Has(s, i, w) /\ \A k \in (i + 1)..Len(s) : ~Has(s, k, w)) - 1
  ELSE -1

\* The position at which an iteration splits the text.
SplitPos(text, max_length) ==
  LET chunk == SubSeq(text, 1, max_length)
      last_period == Max(RFind(chunk, << ".", " " >>), RFind(chunk, << ".", "\n" >>))
      boundary == IF last_period # -1 THEN last_period
                  ELSE IF RFind(chunk, << "\n" >>) # -1 THEN RFind(chunk, << "\n" >>)
                  ELSE RFind(chunk, << " " >>)
  IN IF boundary = -1 THEN max_length - 1 ELSE boundary + 1

Chunking(text, chunks, returned) == [text |-> text, chunks |-> chunks, returned |-> returned]

\* smart_chunk(text, max_length) up to the test of its while loop.
SmartChunkEntered(text, max_length) ==
  IF Len(text) <= max_length THEN Chunking(text, << text >>, TRUE)
  ELSE Chunking(text, << >>, FALSE)

\* One pass of "while text:".
SmartChunkPass(loop, max_length) ==
  IF Len(loop.text) = 0 THEN Chunking(loop.text, loop.chunks, TRUE)
  ELSE IF Len(loop.text) <= max_length
  THEN Chunking(loop.text, Append(loop.chunks, loop.text), TRUE)
  ELSE LET split_pos == SplitPos(loop.text, max_length)
       IN Chunking(Strip(SubSeq(loop.text, split_pos + 1, Len(loop.text))),
                   Append(loop.chunks, Strip(SubSeq(loop.text, 1, split_pos))),
                   FALSE)

CallSmartChunk(text, max_length) ==
  Called("smart_chunk", << text, max_length >>, SmartChunkEntered(text, max_length))

SmartChunkLoop ==
  /\ call.fn = "smart_chunk" /\ ~call.result.returned
  /\ Len(call.result.chunks) < MaxParts
  /\ call' = [call EXCEPT !.result = SmartChunkPass(call.result, call.args[2])]
  /\ UNCHANGED << sched, user_sessions, user_profiles, daily_workout_schedule,
                  authorized_users, jobs, running, threads, last, track >>

SmartChunkReturned ==
  /\ call.fn = "smart_chunk" /\ call.result.returned
  /\ call' = NoCall
  /\ UNCHANGED << sched, user_sessions, user_profiles, daily_workout_schedule,
                  authorized_users, jobs, running, threads, last, track >>

NextChunk ==
  \/ \E text \in ChunkTexts, max_length \in 1..MaxCeiling : CallSmartChunk(text, max_length)
  \/ SmartChunkLoop
  \/ SmartChunkReturned

SpecChunk == InitParse /\ [][NextChunk]_vars

\* C31: every chunk that smart_chunk has appended for a text that is not
\* empty is itself not empty and at most max_length characters long.
C31_ChunksWithinCeiling ==
  (call.fn = "smart_chunk" /\ Len(call.args[1]) > 0) =>
    \A i \in 1..Len(call.result.chunks) :
       /\ Len(call.result.chunks[i]) > 0
       /\ Len(call.result.chunks[i]) <= call.args[2]

\* C32: a session that onboarding created (it was not rebuilt from a stored
\* profile) holds weight, height and fitness_goal whenever its stage is
\* health, lifestyle, workout_prefs or done, and no message is answered by
\* one of the two branches that put the stage back to personalize.
C32_CriticalFieldsPastPersonalize ==
  /\ \A u \in DOMAIN user_sessions :
       (/\ ~track[u].restored
        /\ user_sessions[u].onboarding_step
             \in {"health", "lifestyle", "workout_prefs", "done"}) =>
         ~CriticalMissing(user_sessions[u])
  /\ last.op = "webhook" => last.reply \notin {"need_critical", "confirm_need_critical"}

\* A session that onboarding created has passed personalize with a weight and
\* has gone on to done.
C32_Witness ==
  /\ last.op = "webhook" /\ last.reply = "profile_summary"
  /\ ~track[last.sender].restored
  /\ user_sessions[last.sender].onboarding_step = "done"
  /\ user_sessions[last.sender].weight = "70kg"

(***************************************************************************)
(* schedule_user_daily_workout called on the scheduler that startup left,  *)
(* with add_job and update_schedule_job_id returning or raising.           *)
(***************************************************************************)
\* The times asked for: three of the day and one out of range.
DailyTimes ==
  {FormatHHMM(18, 0), FormatHHMM(7, 30), FormatHHMM(21, 15), << "2", "5", ":", "0", "0" >>}

CallScheduleDaily(phone, preferred_time, add_ok, db_ok) ==
  /\ call = NoCall
  /\ \E r \in {schedule_user_daily_workout_call(jobs, daily_workout_schedule, running,
                                                phone, preferred_time, add_ok, db_ok)} :
       /\ jobs' = r.jobs
       /\ daily_workout_schedule' = r.table
       /\ call' = [fn |-> "schedule_user_daily_workout",
                   args |-> << phone, preferred_time >>,
                   result |-> [ok |-> r.ok]]
  /\ UNCHANGED << sched, user_sessions, user_profiles, authorized_users, running,
                  threads, last, track >>

NextDaily ==
  \/ \E phone \in Users, preferred_time \in DailyTimes, add_ok \in BOOLEAN, db_ok \in BOOLEAN :
       CallScheduleDaily(phone, preferred_time, add_ok, db_ok)
  \/ Returned

SpecDaily == InitSched /\ [][NextDaily]_vars

\* C33: when schedule_user_daily_workout has returned, its result is true
\* exactly when the job store holds a daily-plan job of the identity at the
\* time that was asked for.
C33_TrueIffRegistered ==
  call.fn = "schedule_user_daily_workout" =>
    (call.result.ok <=>
       \E j \in DailyJobsOf(jobs, call.args[1]) : JobAt(j, call.args[2]))

\* C34: a schedule_user_daily_workout call that returns false leaves every
\* job of the store in place.
C34_FailedCallKeepsJobs ==
  [][(call = NoCall /\ call'.fn = "schedule_user_daily_workout" /\ ~call'.result.ok)
       => jobs \subseteq jobs']_vars

\* C35: a message that arrives from an identity while its
\* handle_skip_and_generate_plan task has been started and has not run finds
\* the session at done, and starts no other task.
C35_SkipAcknowledgedIsDone ==
  [][\A u \in Users :
       (/\ \E i \in 1..Len(threads) :
             /\ threads[i].target = "handle_skip_and_generate_plan"
             /\ threads[i].sender = u
        /\ last'.op = "webhook" /\ last'.sender = u
        /\ Handles(u)) =>
         /\ SessionAt(u).onboarding_step = "done"
         /\ threads' = threads]_vars

(***************************************************************************)
(* The admin commands that run a job body on the request path, beside the  *)
(* dispatcher.  call holds the body that the request is executing.         *)
(***************************************************************************)
\* "ADMIN BROADCAST_TIP": handle_tip_admin_commands calls
\* send_daily_mental_health_tips().
AdminBroadcastTip(sender) ==
  /\ call = NoCall
  /\ IF ~is_admin(sender)
     THEN /\ last' = Event("admin", sender, "", "admin_denied", 0)
          /\ UNCHANGED call
     ELSE /\ call' = [fn |-> "send_daily_mental_health_tips", args |-> << sender >>,
                      result |-> << >>]
          /\ last' = Event("admin", sender, "", "broadcasting", 0)
  /\ UNCHANGED << sched, user_sessions, user_profiles, daily_workout_schedule,
                  authorized_users, jobs, running, threads, track >>

\* "ADMIN TEST_DAILY <phone>": handle_admin_command calls
\* send_daily_workout_plan(parts[2]) of the upper-cased message.
AdminTestDaily(sender, phone) ==
  /\ call = NoCall
  /\ IF ~is_admin(sender)
     THEN /\ last' = Event("admin", sender, phone, "admin_denied", 0)
          /\ UNCHANGED call
     ELSE /\ call' = [fn |-> "send_daily_workout_plan", args |-> << sender, Upper(phone) >>,
                      result |-> << >>]
          /\ last' = Event("admin", sender, phone, "testing", 0)
  /\ UNCHANGED << sched, user_sessions, user_profiles, daily_workout_schedule,
                  authorized_users, jobs, running, threads, track >>

\* The body returns to the command, which returns its reply.
AdminBodyReturns ==
  /\ call.fn \in {"send_daily_mental_health_tips", "send_daily_workout_plan"}
  /\ call' = NoCall
  /\ IF call.fn = "send_daily_workout_plan"
     THEN send_daily_workout_plan(call.args[2])
     ELSE /\ last' = Event("admin", call.args[1], "", "broadcast", 0)
          /\ UNCHANGED << user_sessions, track >>
  /\ UNCHANGED << sched, user_profiles, daily_workout_schedule, authorized_users, jobs,
                  running, threads >>

\* Five minutes before the daily tips are due (01:30 UTC), with the scheduler
\* that startup left for U1's schedule row.
InitAdmin ==
  /\ \E utcoffset \in {0, IST_OFFSET_MINUTES} : sched = Clock(60 + 25, utcoffset)
  /\ call = NoCall
  /\ \E startOk \in BOOLEAN :
       \E boot \in {init_scheduler(SchedRows, {U1}, startOk)} :
          /\ user_sessions = Put(Empty, U1, SchedSession)
          /\ user_profiles = Put(Empty, U1, ProfileData(SchedSession))
          /\ daily_workout_schedule = boot.table
          /\ authorized_users = {U1}
          /\ jobs = boot.jobs
          /\ running = boot.running
          /\ threads = << >>
          /\ last = Event("init", << >>, "", "", 0)
          /\ track = [u \in Users |->
                        [NoTrack EXCEPT !.scheduled =
                           BootScheduled(SchedRows, {U1}, boot.running)[u]]]

NextAdmin ==
  \/ \E d \in TickSteps : Tick(d)
  \/ \E j \in jobs : Dispatch(j)
  \/ \E id \in DOMAIN sched.instances : Complete(id)
  \/ \E sender \in Users : AdminBroadcastTip(sender)
  \/ \E sender \in Users, phone \in Users : AdminTestDaily(sender, phone)
  \/ AdminBodyReturns

SpecAdmin == InitAdmin /\ [][NextAdmin]_vars

\* C36: the body that an admin command is executing on the request path is
\* not the body of an execution that the scheduler has running (for the
\* daily plan: not for the same identity).
C36_BodyInOneThread ==
  \A id \in DOMAIN sched.instances :
     \/ sched.instances[id].func # call.fn
     \/ /\ call.fn = "send_daily_workout_plan"
        /\ sched.instances[id].args # call.args[2]

\* C37: parse_reminder_fallback, and parse_reminder_message which ends in it,
\* return a task with a time or (None, None): no call ends in an exception.
C37_FallbackNeverRaises ==
  call.fn \in {"parse_reminder_fallback", "parse_reminder_message"} =>
    call.result # Raised

\* C38: a profile update accepted in stage done is written to the stored
\* profile too: after the request that answers with the update confirmation
\* the stored profile of the sender holds the weight the session holds.
C38_UpdateReachesStoredProfile ==
  [][(last'.op = "webhook" /\ last'.reply = "profile_updated") =>
       /\ last'.sender \in DOMAIN user_profiles'
       /\ user_profiles'[last'.sender].weight = user_sessions'[last'.sender].weight]_vars

(***************************************************************************)
(* Authorization: the two checks at the head of whatsapp_webhook, with the *)
(* admin command that withdraws a user's authorization while the user's    *)
(* session and daily job exist.                                            *)
(***************************************************************************)
\* remove_user: UPDATE authorized_users SET authorized = false WHERE phone_number
remove_user(authorized, phone) ==
  [ok |-> phone \in authorized, authorized |-> authorized \ {phone}]

\* "ADMIN REMOVE <phone>": phone = parts[2] of the message as it was sent.
AdminRemove(sender, phone) ==
  /\ IF ~is_admin(sender)
     THEN /\ last' = Event("admin", sender, phone, "admin_denied", 0)
          /\ UNCHANGED authorized_users
     ELSE \E r \in {remove_user(authorized_users, phone)} :
            /\ authorized_users' = r.authorized
            /\ last' = Event("admin", sender, phone,
                             IF r.ok THEN "removed" ELSE "not_found", 0)
  /\ UNCHANGED << sched, call, user_sessions, user_profiles, daily_workout_schedule,
                  jobs, running, threads, track >>

NextAuth ==
  \/ \E sender \in Users, msg \in SchedMessages : Denied(sender, msg)
  \/ \E sender \in Users, msg \in SchedMessages :
       Cardinality(OneOffs(jobs)) < MaxOneOffs /\ Done(sender, msg)
  \/ \E i \in 1..MaxThreads : RunProcessAndReply(i)
  \/ \E sender \in Users, phone \in Users : AdminRemove(sender, phone)

SpecAuth == InitSched /\ [][NextAuth]_vars

U1Underscore == << "whatsapp", "_", "+1" >>

Identities == {U1, U2, U1Underscore}

\* add_user: INSERT INTO authorized_users; IntegrityError when the row exists.
add_user(authorized, phone) ==
  [ok |-> phone \notin authorized, authorized |-> authorized \cup {phone}]

\* "ADMIN ADD <phone>": phone = parts[2] of the message as it was sent.
AdminAdd(sender, phone) ==
  /\ call = NoCall
  /\ IF ~is_admin(sender)
     THEN /\ last' = Event("admin", sender, phone, "admin_denied", 0)
          /\ UNCHANGED authorized_users
     ELSE \E r \in {add_user(authorized_users, phone)} :
            /\ authorized_users' = r.authorized
            /\ last' = Event("admin", sender, phone,
                             IF r.ok THEN "added" ELSE "exists", 0)
  /\ UNCHANGED << sched, call, user_sessions, user_profiles, daily_workout_schedule,
                  jobs, running, threads, track >>

\* An authorized identity reaches schedule_user_daily_workout.
NextIds ==
  \/ \E sender \in Users, phone \in Identities : AdminAdd(sender, phone)
  \/ \E phone \in Identities, preferred_time \in DailyTimes, add_ok \in BOOLEAN :
       /\ phone \in authorized_users
       /\ CallScheduleDaily(phone, preferred_time, add_ok, TRUE)
  \/ Returned

SpecIds == InitSched /\ [][NextIds]_vars

\* C40: two distinct authorized identities have distinct daily job ids.
C40_DailyJobIdInjective ==
  \A p \in authorized_users, q \in authorized_users :
    p # q => DailyJobId(p, FormatHHMM(18, 0)) # DailyJobId(q, FormatHHMM(18, 0))

====
